---------------------------- MODULE Spec2Model ----------------------------
(***************************************************************************)
(* ShellGeist safe-edit pipeline: the unified-diff applier, the diff       *)
(* normalizer, the empty-OLD validator, the content guards and the edit    *)
(* driver, modelled from backend/shellgeist/diff/apply.py,                 *)
(* backend/shellgeist/diff/guards.py and backend/shellgeist/tools/coder.py *)
(*                                                                         *)
(* A text is a sequence of characters; a character is a one-character      *)
(* string.  A list of lines is a sequence of texts.                        *)
(***************************************************************************)
EXTENDS Integers, Sequences, FiniteSets, TLC

VARIABLES
    old,    \* the text a diff is applied to, the contents of the file
    diff,   \* the diff text
    ap,     \* apply_unified_diff(old, diff): its locals and its position
    normalized,   \* _normalize_unified_diff(diff), once computed
    apn,    \* apply_unified_diff(old, normalized.text): its locals and position
    guard,  \* enforce_guards(relpath, instruction, old, new): arguments, verdict
    ed,     \* edit_plan(path, instruction): arguments, locals, position, result
    rp,     \* _resolve_repo_path(root, rel): arguments, what it returns or raises
    ah,     \* apply_edit / apply_full_replace: arguments, files, position, result
    conn,   \* one connection of the daemon: the peer, the lines, client_handler
    lj,     \* loads_obj(text): argument, what it returns or raises
    fi,     \* the future-import checks and finalize on one old and one new
    srv     \* the daemon with its connections: the tasks and the files

vars == <<old, diff, ap, normalized, apn, guard, ed, rp, ah, conn, lj, fi, srv>>

\* The variables the steps of apply_unified_diff(old, diff) leave alone.
applyFrame == <<old, diff, normalized, apn, guard, ed, rp, ah, conn, lj, fi, srv>>

(***************************************************************************)
(* Bounds of the model.                                                    *)
(***************************************************************************)
MaxDiffLines == 4   \* a diff is made of at most this many palette lines

(***************************************************************************)
(* Python str primitives.                                                  *)
(***************************************************************************)
\* A local of the code: Op applied to the value v the local is bound to.
With(v, Op(_)) == Op(v)

\* U+2028 LINE SEPARATOR: a line boundary of str.splitlines and a blank of
\* str.strip and \s, and a character a JSON string may hold as it is.
LSEP == "\\u2028"

\* The characters str.splitlines() ends a line at ("\r\n" counts once).  Of
\* Python's boundaries (\n \r \v \f \x1c \x1d \x1e \x85 U+2028 U+2029) the
\* alphabet of the model holds \n, \r, \f and U+2028.
LineBoundaries == {"\n", "\r", "\f", LSEP}

\* The characters str.strip() removes and the regex class \s matches.
Whitespace == {" ", "\t", "\n", "\r", "\f", LSEP}

Digits == {"0", "1", "2", "3", "4", "5", "6", "7", "8", "9"}

DigitValue(c) ==
    CASE c = "0" -> 0 [] c = "1" -> 1 [] c = "2" -> 2 [] c = "3" -> 3
      [] c = "4" -> 4 [] c = "5" -> 5 [] c = "6" -> 6 [] c = "7" -> 7
      [] c = "8" -> 8 [] c = "9" -> 9

\* s[from:] with a 0-based from, as Python slices.
Drop(s, n) == IF n >= Len(s) THEN <<>> ELSE SubSeq(s, n + 1, Len(s))

\* s[:n]
Take(s, n) == IF n >= Len(s) THEN s ELSE SubSeq(s, 1, n)

\* s[lo:hi] with 0-based lo, exclusive hi
Slice(s, lo, hi) ==
    IF lo >= hi \/ lo >= Len(s) THEN <<>>
    ELSE SubSeq(s, lo + 1, IF hi > Len(s) THEN Len(s) ELSE hi)

\* s.startswith(p)
StartsWith(s, p) == Len(s) >= Len(p) /\ SubSeq(s, 1, Len(p)) = p

\* s.endswith(p)
EndsWith(s, p) ==
    Len(s) >= Len(p) /\ SubSeq(s, Len(s) - Len(p) + 1, Len(s)) = p

RECURSIVE Join(_)
\* "".join(parts)
Join(parts) ==
    IF parts = <<>> THEN <<>> ELSE Head(parts) \o Join(Tail(parts))

RECURSIVE LStrip(_)
\* s.lstrip()
LStrip(s) ==
    IF s # <<>> /\ Head(s) \in Whitespace THEN LStrip(Tail(s)) ELSE s

RECURSIVE RStrip(_)
\* s.rstrip()
RStrip(s) ==
    IF s # <<>> /\ s[Len(s)] \in Whitespace
    THEN RStrip(SubSeq(s, 1, Len(s) - 1)) ELSE s

\* s.strip()
Strip(s) == LStrip(RStrip(s))

\* The first position >= k of s (1-based) whose character is in set, or
\* Len(s) + 1 when there is none.
FirstIn(s, k, set) ==
    With({p \in k..Len(s) : s[p] \in set}, LAMBDA found :
        IF found = {} THEN Len(s) + 1
        ELSE CHOOSE p \in found : \A q \in found : p <= q)

RECURSIVE SplitLinesFrom(_, _, _)
\* The loop of str.splitlines: k is the position of s (1-based) where the
\* next line starts, acc the lines already complete.
SplitLinesFrom(s, k, acc) ==
    IF k > Len(s) THEN acc
    ELSE With(FirstIn(s, k, LineBoundaries), LAMBDA p :
         With(IF p > Len(s) THEN Len(s)
              ELSE IF s[p] = "\r" /\ p < Len(s) /\ s[p + 1] = "\n" THEN p + 1
              ELSE p, LAMBDA e :
         SplitLinesFrom(s, e + 1, Append(acc, SubSeq(s, k, e)))))

\* s.splitlines(keepends=True)
_split_lines_keepends(s) == SplitLinesFrom(s, 1, <<>>)

\* The terminator of a kept-ends line: "\r\n", one boundary character or none.
LineEnd(ln) ==
    IF EndsWith(ln, <<"\r", "\n">>) THEN <<"\r", "\n">>
    ELSE IF ln # <<>> /\ ln[Len(ln)] \in LineBoundaries THEN <<ln[Len(ln)]>>
    ELSE <<>>

\* s.splitlines(): the lines without their terminators
SplitLines(s) ==
    With(_split_lines_keepends(s), LAMBDA kept :
         [k \in 1..Len(kept) |->
             SubSeq(kept[k], 1, Len(kept[k]) - Len(LineEnd(kept[k])))])

(***************************************************************************)
(* diff/apply.py                                                           *)
(***************************************************************************)
RECURSIVE SkipWhile(_, _, _)
\* The first position >= k of s (1-based) whose character is not in set.
SkipWhile(s, k, set) ==
    IF k <= Len(s) /\ s[k] \in set THEN SkipWhile(s, k + 1, set) ELSE k

RECURSIVE ToInt(_, _)
\* int(digits), acc the value of the digits already read
ToInt(ds, acc) ==
    IF ds = <<>> THEN acc ELSE ToInt(Tail(ds), 10 * acc + DigitValue(Head(ds)))

\* One "(\d+)(?:,(\d+))?" of _HUNK_RE read at position k: the position after
\* it, or 0 when no digit stands at k.  A "," that no digit follows is left.
RangeEnd(h, k) ==
    With(SkipWhile(h, k, Digits), LAMBDA e1 :
    With(SkipWhile(h, e1 + 1, Digits), LAMBDA e2 :
         IF e1 = k THEN 0
         ELSE IF e1 <= Len(h) /\ h[e1] = "," /\ e2 > e1 + 1 THEN e2
         ELSE e1))

\* _HUNK_RE.match(h): ^@@\s+-(\d+)(?:,(\d+))?\s+\+(\d+)(?:,(\d+))?\s+@@$
\* [ok |-> a match was found, old_start |-> int(group 1)]
_HUNK_RE(h) ==
    With(SkipWhile(h, 3, Whitespace), LAMBDA p1 :      \* after "@@\s+"
    With(SkipWhile(h, p1 + 1, Digits), LAMBDA d1 :     \* after "-(\d+)"
    With(RangeEnd(h, p1 + 1), LAMBDA r1 :              \* after the old range
    With(SkipWhile(h, r1, Whitespace), LAMBDA p2 :     \* after "\s+"
    With(RangeEnd(h, p2 + 1), LAMBDA r2 :              \* after the new range
    With(SkipWhile(h, r2, Whitespace), LAMBDA p3 :     \* after "\s+"
    With(/\ StartsWith(h, <<"@", "@">>)
         /\ p1 > 3
         /\ p1 <= Len(h) /\ h[p1] = "-"
         /\ r1 > 0
         /\ p2 > r1
         /\ p2 <= Len(h) /\ h[p2] = "+"
         /\ r2 > 0
         /\ p3 > r2
         /\ p3 + 1 = Len(h) /\ h[p3] = "@" /\ h[p3 + 1] = "@", LAMBDA ok :
         [ok |-> ok,
          old_start |-> IF ok THEN ToInt(SubSeq(h, p1 + 1, d1 - 1), 0) ELSE 0])))))))

\* The locals of apply_unified_diff before the call.
ApplyIdle ==
    [pc |-> "call", old_lines |-> <<>>, old_len |-> 0, lines |-> <<>>,
     i |-> 0, out |-> <<>>, old_idx |-> 0, hunk_lines |-> 0,
     err |-> "", result |-> <<>>]

ApplyRaise(a, msg) == [a EXCEPT !.pc = "error", !.err = msg]

RECURSIVE FirstHunk(_, _)
\* while i < len(lines) and not lines[i].startswith("@@"): i += 1
FirstHunk(lines, i) ==
    IF i < Len(lines) /\ ~StartsWith(lines[i + 1], <<"@", "@">>)
    THEN FirstHunk(lines, i + 1) ELSE i

\* apply.py 29-43: split both texts, skip the noise before the first hunk.
ApplyEnter(o, d) ==
    With(_split_lines_keepends(o), LAMBDA old_lines :
    With(_split_lines_keepends(d), LAMBDA lines :
    With(FirstHunk(lines, 0), LAMBDA i :
    With([ApplyIdle EXCEPT !.old_lines = old_lines,
                           !.old_len = Len(old_lines),
                           !.lines = lines, !.i = i], LAMBDA a :
         IF i >= Len(lines) THEN ApplyRaise(a, "no hunks found")
         ELSE [a EXCEPT !.pc = "header"]))))

\* apply.py 55-59: target_old_idx = max(0, old_start - 1), clamped to EOF
NoClampTarget(old_start, old_len) ==
    IF old_start - 1 > 0 THEN old_start - 1 ELSE 0

TargetOldIdx(old_start, old_len) ==
    With(IF old_start - 1 > 0 THEN old_start - 1 ELSE 0, LAMBDA t0 :
        IF t0 > old_len THEN old_len ELSE t0)

\* apply.py 62: if target_old_idx < old_idx: raise
TargetBeforeOrAt(target_old_idx, old_idx) == target_old_idx <= old_idx

TargetBefore(target_old_idx, old_idx) == target_old_idx < old_idx

\* apply.py 46-67: one hunk header.
ApplyHeader(a) ==
    With(a.lines[a.i + 1], LAMBDA header :
    With(_HUNK_RE(Strip(header)), LAMBDA m :
    With(TargetOldIdx(m.old_start, a.old_len), LAMBDA target_old_idx :
         IF ~StartsWith(header, <<"@", "@">>)
         THEN ApplyRaise(a, "expected hunk header")
         ELSE IF ~m.ok THEN ApplyRaise(a, "invalid hunk header")
         ELSE IF TargetBefore(target_old_idx, a.old_idx)
         THEN ApplyRaise(a, "target before current index")
         ELSE [a EXCEPT !.pc = "body",
                        !.out = a.out \o Slice(a.old_lines, a.old_idx, target_old_idx),
                        !.old_idx = target_old_idx,
                        !.i = a.i + 1,
                        !.hunk_lines = 0])))

\* The body loop of a hunk goes on: a line is left and it is no hunk header.
InBody(a) ==
    a.i < Len(a.lines) /\ ~StartsWith(a.lines[a.i + 1], <<"@", "@">>)

\* A line without its terminator.
Chomp(ln) == SubSeq(ln, 1, Len(ln) - Len(LineEnd(ln)))

\* A comparison that ignores the line terminators.
LineDiffersModuloEnd(got, expected) == Chomp(got) # Chomp(expected)

\* expected: the text a context or delete line requires; got: the line of old
\* under the cursor.  apply.py 86 and 96: got != expected
LineDiffers(got, expected) == got # expected

\* apply.py 72-106: one body line.
ApplyBodyLine(a) ==
    With(a.lines[a.i + 1], LAMBDA ln :
    With(Tail(ln), LAMBDA expected :
    With(a.old_lines[a.old_idx + 1], LAMBDA got :
        IF StartsWith(ln, <<"\\">>) THEN [a EXCEPT !.i = a.i + 1]
        ELSE IF StartsWith(ln, <<" ">>)
        THEN IF a.old_idx >= a.old_len
             THEN ApplyRaise([a EXCEPT !.hunk_lines = a.hunk_lines + 1], "context EOF")
             ELSE IF LineDiffers(got, expected)
             THEN ApplyRaise([a EXCEPT !.hunk_lines = a.hunk_lines + 1], "context mismatch")
             ELSE [a EXCEPT !.hunk_lines = a.hunk_lines + 1,
                            !.out = Append(a.out, got),
                            !.old_idx = a.old_idx + 1,
                            !.i = a.i + 1]
        ELSE IF StartsWith(ln, <<"-">>)
        THEN IF a.old_idx >= a.old_len
             THEN ApplyRaise([a EXCEPT !.hunk_lines = a.hunk_lines + 1], "delete EOF")
             ELSE IF LineDiffers(got, expected)
             THEN ApplyRaise([a EXCEPT !.hunk_lines = a.hunk_lines + 1], "delete mismatch")
             ELSE [a EXCEPT !.hunk_lines = a.hunk_lines + 1,
                            !.old_idx = a.old_idx + 1,
                            !.i = a.i + 1]
        ELSE IF StartsWith(ln, <<"+">>)
        THEN [a EXCEPT !.hunk_lines = a.hunk_lines + 1,
                       !.out = Append(a.out, Tail(ln)),
                       !.i = a.i + 1]
        ELSE ApplyRaise([a EXCEPT !.hunk_lines = a.hunk_lines + 1], "invalid hunk line"))))

\* The rest of old taken one line too late.
RestOfOldSkipsOne(a) == Drop(a.old_lines, a.old_idx + 1)

\* apply.py 111: old_lines[old_idx:]
RestOfOld(a) == Drop(a.old_lines, a.old_idx)

\* The end of a hunk body without the check of apply.py 108.
ApplyHunkEndUnchecked(a) ==
    IF a.i < Len(a.lines) THEN [a EXCEPT !.pc = "header"]
    ELSE With(a.out \o RestOfOld(a), LAMBDA out :
             [a EXCEPT !.pc = "done", !.out = out, !.result = Join(out)])

\* apply.py 108-112: the end of a hunk body, and after the last hunk the copy
\* of the rest of old and the return.
ApplyHunkEnd(a) ==
    IF a.hunk_lines = 0 THEN ApplyRaise(a, "empty hunk body")
    ELSE IF a.i < Len(a.lines) THEN [a EXCEPT !.pc = "header"]
    ELSE With(a.out \o RestOfOld(a), LAMBDA out :
             [a EXCEPT !.pc = "done", !.out = out, !.result = Join(out)])

\* One step of apply_unified_diff from the position a.pc.
ApplyStep(a) ==
    IF a.pc = "header" THEN ApplyHeader(a)
    ELSE IF a.pc = "body" /\ InBody(a) THEN ApplyBodyLine(a)
    ELSE IF a.pc = "body" THEN ApplyHunkEnd(a)
    ELSE a

RECURSIVE ApplyRun(_)
ApplyRun(a) == IF a.pc \in {"done", "error"} THEN a ELSE ApplyRun(ApplyStep(a))

\* apply_unified_diff(o, d) run to its end: pc = "done" with result, or
\* pc = "error" (PatchApplyError) with err.
apply_unified_diff(o, d) == ApplyRun(ApplyEnter(o, d))

(***************************************************************************)
(* tools/coder.py: the empty-OLD validator                                 *)
(***************************************************************************)
RECURSIVE ValidateFrom(_, _, _, _)
\* coder.py 258-279: the loop over lines[k..] and the verdict after it.
ValidateFrom(lines, k, in_hunk, saw_plus) ==
    IF k > Len(lines)
    THEN IF in_hunk /\ ~saw_plus THEN [ok |-> FALSE, why |-> "empty_hunk"]
         ELSE IF ~in_hunk THEN [ok |-> FALSE, why |-> "no_hunks"]
         ELSE [ok |-> TRUE, why |-> ""]
    ELSE With(lines[k], LAMBDA ln :
             IF StartsWith(ln, <<"@", "@">>)
             THEN ValidateFrom(lines, k + 1, TRUE, saw_plus)
             ELSE IF ~in_hunk THEN ValidateFrom(lines, k + 1, in_hunk, saw_plus)
             ELSE IF StartsWith(ln, <<"\\">>) \/ ln = <<>>
             THEN ValidateFrom(lines, k + 1, in_hunk, saw_plus)
             ELSE IF StartsWith(ln, <<" ">>)
             THEN [ok |-> FALSE, why |-> "context_lines"]
             ELSE IF StartsWith(ln, <<"-">>)
             THEN [ok |-> FALSE, why |-> "deletions"]
             ELSE IF StartsWith(ln, <<"+">>)
             THEN ValidateFrom(lines, k + 1, in_hunk, TRUE)
             ELSE [ok |-> FALSE, why |-> "invalid_line"])

\* _validate_diff_for_empty_old(diff): [ok, why]
_validate_diff_for_empty_old(d) == ValidateFrom(SplitLines(d), 1, FALSE, FALSE)

(***************************************************************************)
(* tools/coder.py: the diff normalizer                                     *)
(***************************************************************************)
RECURSIVE CrToLf(_)
\* diff.replace("\r\n", "\n").replace("\r", "\n")
CrToLf(s) ==
    With(FirstIn(s, 1, {"\r"}), LAMBDA p :
        IF p > Len(s) THEN s
        ELSE SubSeq(s, 1, p - 1) \o <<"\n">>
               \o CrToLf(Drop(s, IF p < Len(s) /\ s[p + 1] = "\n" THEN p + 1 ELSE p)))

RECURSIVE SplitOnFrom(_, _, _, _)
\* The loop of s.split(sep) for a one-character sep: k is the position of s
\* (1-based) where the next part starts, acc the parts already complete.
SplitOnFrom(s, sep, k, acc) ==
    With(FirstIn(s, k, {sep}), LAMBDA p :
        IF p > Len(s) THEN Append(acc, SubSeq(s, k, Len(s)))
        ELSE SplitOnFrom(s, sep, p + 1, Append(acc, SubSeq(s, k, p - 1))))

\* s.split(sep): always at least one part
SplitOn(s, sep) == SplitOnFrom(s, sep, 1, <<>>)

RECURSIVE JoinWith(_, _)
\* sep.join(parts)
JoinWith(parts, sep) ==
    IF parts = <<>> THEN <<>>
    ELSE IF Len(parts) = 1 THEN parts[1]
    ELSE parts[1] \o sep \o JoinWith(Tail(parts), sep)

\* coder.py 182
_NOISE_PREFIXES ==
    { <<"d", "i", "f", "f", " ", "-", "-", "g", "i", "t", " ">>,
      <<"i", "n", "d", "e", "x", " ">>,
      <<"-", "-", "-", " ">>,
      <<"+", "+", "+", " ">> }

\* any(raw_line.startswith(p) for p in _NOISE_PREFIXES)
IsNoise(raw_line) == \E pre \in _NOISE_PREFIXES : StartsWith(raw_line, pre)

\* _HUNK_INLINE_OP_RE = ^(@@.*@@)\s+([+\- ].*)$ matched on a line without
\* "\n".  Both .* and \s+ are greedy: q is the last "@@" (after the leading
\* one) that whitespace and then one of "+", "-", " " follow, k the longest
\* whitespace run after it that one of them follows.
\* [ok, g1 |-> group 1, g2 |-> group 2]
_HUNK_INLINE_OP_RE(ln) ==
    LET n == Len(ln)
        Runs(q) == {k \in 1..(n - q - 2) :
                      /\ \A x \in (q + 2)..(q + 1 + k) : ln[x] \in Whitespace
                      /\ ln[q + 2 + k] \in {"+", "-", " "}}
        Qs == {q \in 3..(n - 1) :
                 ln[q] = "@" /\ ln[q + 1] = "@" /\ Runs(q) # {}}
        q == CHOOSE x \in Qs : \A y \in Qs : y <= x
        k == CHOOSE x \in Runs(q) : \A y \in Runs(q) : y <= x
    IN  IF StartsWith(ln, <<"@", "@">>) /\ Qs # {}
        THEN [ok |-> TRUE, g1 |-> SubSeq(ln, 1, q + 1),
              g2 |-> SubSeq(ln, q + 2 + k, n)]
        ELSE [ok |-> FALSE, g1 |-> <<>>, g2 |-> <<>>]

RECURSIVE NormalizeLines(_)
\* coder.py 194-203: the lines kept, a header with an inline operation split
NormalizeLines(raw_lines) ==
    IF raw_lines = <<>> THEN <<>>
    ELSE With(Head(raw_lines), LAMBDA raw_line :
         With(_HUNK_INLINE_OP_RE(raw_line), LAMBDA m :
             (IF IsNoise(raw_line) THEN <<>>
              ELSE IF m.ok THEN <<m.g1, m.g2>>
              ELSE <<raw_line>>)
             \o NormalizeLines(Tail(raw_lines))))

\* _normalize_unified_diff that appends a line feed whatever the end of norm.
NormalizeAlwaysAppends(d) ==
    With(JoinWith(NormalizeLines(SplitOn(CrToLf(d), "\n")), <<"\n">>), LAMBDA norm :
        norm \o <<"\n">>)

\* _normalize_unified_diff(diff) for a diff that is a str
_normalize_unified_diff(d) ==
    With(JoinWith(NormalizeLines(SplitOn(CrToLf(d), "\n")), <<"\n">>), LAMBDA norm :
        IF EndsWith(norm, <<"\n">>) THEN norm ELSE norm \o <<"\n">>)

(***************************************************************************)
(* diff/guards.py                                                          *)
(***************************************************************************)
\* The character U+0001, written as a token: TLA+ strings hold no such
\* character.  It stands for every control character below 0x20 other than
\* \t \n \f \r.
SOH == "\\x01"

\* The characters c of the model's alphabet with ord(c) < 32.
Below32 == {"\t", "\n", "\f", "\r", SOH}

\* guards.py 12-20
_has_control_chars(s) ==
    \E k \in 1..Len(s) : s[k] \in Below32 /\ s[k] \notin {"\n", "\r", "\t"}

FromFutureImport ==
    <<"f", "r", "o", "m", " ", "_", "_", "f", "u", "t", "u", "r", "e", "_", "_", " ", "i", "m", "p", "o", "r", "t">>

\* ln.lstrip().startswith("from __future__ import")
IsFutureLine(ln) == StartsWith(LStrip(ln), FromFutureImport)

\* guards.py 23-27
_has_future_import(text) ==
    With(SplitLines(text), LAMBDA lines :
        \E k \in 1..Len(lines) : IsFutureLine(lines[k]))

_TRIPLE_DQ == <<"\"", "\"", "\"">>
_TRIPLE_SQ == <<"'", "'", "'">>

RECURSIVE CountOf(_, _)
\* s.count(q): the occurrences of q in s that do not overlap
CountOf(s, q) ==
    IF Len(s) < Len(q) THEN 0
    ELSE IF StartsWith(s, q) THEN 1 + CountOf(Drop(s, Len(q)), q)
    ELSE CountOf(Tail(s), q)

\* q in s
Contains(s, q) == \E k \in 0..(Len(s) - Len(q)) : SubSeq(s, k + 1, k + Len(q)) = q

RECURSIVE SkipBlankAndComments(_, _)
\* guards.py 40-48: i after the blank lines and the comments from i on
SkipBlankAndComments(lines, i) ==
    IF i < Len(lines)
       /\ (Strip(lines[i + 1]) = <<>> \/ StartsWith(LStrip(lines[i + 1]), <<"#">>))
    THEN SkipBlankAndComments(lines, i + 1) ELSE i

RECURSIVE SkipToDocstringEnd(_, _, _)
\* guards.py 61-65: i after the first line from i on that holds q
SkipToDocstringEnd(lines, i, q) ==
    IF i >= Len(lines) THEN i
    ELSE IF Contains(lines[i + 1], q) THEN i + 1
    ELSE SkipToDocstringEnd(lines, i + 1, q)

\* guards.py 51-65: i after the module docstring that starts at i, if one does
SkipDocstring(lines, i) ==
    IF i >= Len(lines) THEN i
    ELSE With(LStrip(lines[i + 1]), LAMBDA s0 :
         With(IF StartsWith(s0, _TRIPLE_DQ) THEN _TRIPLE_DQ ELSE _TRIPLE_SQ, LAMBDA q :
             IF StartsWith(s0, _TRIPLE_DQ) \/ StartsWith(s0, _TRIPLE_SQ)
             THEN IF CountOf(s0, q) >= 2 THEN i + 1
                  ELSE SkipToDocstringEnd(lines, i + 1, q)
             ELSE i))

RECURSIVE SkipBlank(_, _)
\* guards.py 68-69
SkipBlank(lines, i) ==
    IF i < Len(lines) /\ Strip(lines[i + 1]) = <<>>
    THEN SkipBlank(lines, i + 1) ELSE i

\* guards.py 30-71
_future_import_is_in_allowed_region(new) ==
    With(SplitLines(new), LAMBDA lines :
    With(SkipBlank(lines, SkipDocstring(lines, SkipBlankAndComments(lines, 0))), LAMBDA i :
        i < Len(lines) /\ IsFutureLine(lines[i + 1])))

\* _guard_future_import without the test of old: the guard applied to every new.
GuardFutureImportAlways(o, new) ==
    IF ~_has_future_import(new)
    THEN [ok |-> FALSE, why |-> "future_import_removed"]
    ELSE IF ~_future_import_is_in_allowed_region(new)
    THEN [ok |-> FALSE, why |-> "future_import_moved"]
    ELSE [ok |-> TRUE, why |-> ""]

\* guards.py 74-87: [ok, why]
_guard_future_import(o, new) ==
    IF ~_has_future_import(o) THEN [ok |-> TRUE, why |-> ""]
    ELSE IF ~_has_future_import(new)
    THEN [ok |-> FALSE, why |-> "future_import_removed"]
    ELSE IF ~_future_import_is_in_allowed_region(new)
    THEN [ok |-> FALSE, why |-> "future_import_moved"]
    ELSE [ok |-> TRUE, why |-> ""]

RECURSIVE CollapseBlankRuns(_, _)
\* guards.py 102-111: a run of blank lines becomes one empty line
CollapseBlankRuns(lines, blank_run) ==
    IF lines = <<>> THEN <<>>
    ELSE IF Strip(Head(lines)) = <<>>
    THEN (IF blank_run + 1 <= 1 THEN <<<<>>>> ELSE <<>>)
           \o CollapseBlankRuns(Tail(lines), blank_run + 1)
    ELSE <<Head(lines)>> \o CollapseBlankRuns(Tail(lines), 0)

\* guards.py 90-113
_normalize_for_similarity(s) ==
    With(SplitLines(CrToLf(s)), LAMBDA split :
    With([k \in 1..Len(split) |-> RStrip(split[k])], LAMBDA lines :
        Strip(JoinWith(CollapseBlankRuns(lines, 0), <<"\n">>))))

\* difflib.SequenceMatcher.find_longest_match(alo, ahi, blo, bhi) without
\* junk: the longest block a[i:i+k] = b[j:j+k], of those the one that starts
\* earliest in a, of those the one that starts earliest in b; k = 0 if none.
FindLongestMatch(a, b, alo, ahi, blo, bhi) ==
    LET blocks == {t \in (alo..(ahi - 1)) \X (blo..(bhi - 1)) \X (1..(ahi - alo)) :
                     /\ t[1] + t[3] <= ahi
                     /\ t[2] + t[3] <= bhi
                     /\ \A x \in 0..(t[3] - 1) : a[t[1] + x + 1] = b[t[2] + x + 1]}
        Better(t, u) == \/ t[3] > u[3]
                        \/ t[3] = u[3] /\ t[1] < u[1]
                        \/ t[3] = u[3] /\ t[1] = u[1] /\ t[2] <= u[2]
    IN  IF blocks = {} THEN <<alo, blo, 0>>
        ELSE CHOOSE t \in blocks : \A u \in blocks : Better(t, u)

RECURSIVE MatchingSize(_, _, _, _, _, _)
\* The sum of the sizes of SequenceMatcher.get_matching_blocks().
MatchingSize(a, b, alo, ahi, blo, bhi) ==
    With(FindLongestMatch(a, b, alo, ahi, blo, bhi), LAMBDA m :
    With(m[1], LAMBDA i :
    With(m[2], LAMBDA j :
    With(m[3], LAMBDA k :
        IF k = 0 THEN 0
        ELSE k + (IF alo < i /\ blo < j
                  THEN MatchingSize(a, b, alo, i, blo, j) ELSE 0)
               + (IF i + k < ahi /\ j + k < bhi
                  THEN MatchingSize(a, b, i + k, ahi, j + k, bhi) ELSE 0)))))

\* guards.py 116-123: SequenceMatcher.ratio() = 2.0 * matches / length, and
\* 1.0 when length is 0, kept as the fraction [num, den].
_similarity_ratio(o, new) ==
    With(SplitLines(_normalize_for_similarity(o)), LAMBDA a :
    With(SplitLines(_normalize_for_similarity(new)), LAMBDA b :
    With(Len(a) + Len(b), LAMBDA length :
        IF length = 0 THEN [num |-> 1, den |-> 1]
        ELSE [num |-> 2 * MatchingSize(a, b, 0, Len(a), 0, Len(b)),
              den |-> length])))

\* ratio < percent / 100
RatioBelow(ratio, percent) == 100 * ratio.num < percent * ratio.den

UpperCase ==
    <<"A", "B", "C", "D", "E", "F", "G", "H", "I", "J", "K", "L", "M",
      "N", "O", "P", "Q", "R", "S", "T", "U", "V", "W", "X", "Y", "Z">>
LowerCase ==
    <<"a", "b", "c", "d", "e", "f", "g", "h", "i", "j", "k", "l", "m",
      "n", "o", "p", "q", "r", "s", "t", "u", "v", "w", "x", "y", "z">>

\* s.lower()
Lower(s) ==
    [k \in 1..Len(s) |->
        IF \E n \in 1..26 : UpperCase[n] = s[k]
        THEN LowerCase[CHOOSE n \in 1..26 : UpperCase[n] = s[k]]
        ELSE s[k]]

\* guards.py 128-139
RewriteKeywords ==
    { <<"r", "e", "w", "r", "i", "t", "e">>,
      <<"r", "e", "f", "a", "c", "t", "o", "r">>,
      <<"r", "e", "f", "o", "r", "m", "a", "t">>,
      <<"f", "o", "r", "m", "a", "t">>,
      <<"o", "v", "e", "r", "h", "a", "u", "l">>,
      <<"r", "e", "p", "l", "a", "c", "e">>,
      <<"f", "u", "l", "l">>,
      <<"c", "l", "e", "a", "n", "u", "p">>,
      <<"c", "l", "e", "a", "n", " ", "u", "p">>,
      <<"m", "o", "d", "e", "r", "n", "i", "z", "e">> }

\* _allow_big_rewrite without the .lower() of the instruction.
AllowBigRewriteCaseSensitive(instruction) ==
    \E k \in RewriteKeywords : Contains(instruction, k)

\* guards.py 126-140
_allow_big_rewrite(instruction) ==
    \E k \in RewriteKeywords : Contains(Lower(instruction), k)

\* pathlib.Path(relpath).name: the last component of relpath that is neither
\* empty nor "."; "" when there is none.
PathName(relpath) ==
    With(SplitOn(relpath, "/"), LAMBDA parts :
    With({k \in 1..Len(parts) : parts[k] # <<>> /\ parts[k] # <<".">>}, LAMBDA named :
        IF named = {} THEN <<>>
        ELSE parts[CHOOSE k \in named : \A x \in named : x <= k]))

README_MD == <<"r", "e", "a", "d", "m", "e", ".", "m", "d">>

\* guards.py 189: min_ratio = 0.20, in percent
MinRatioPercent == 20
\* guards.py 185: ratio < 0.90, in percent
ReadmeRatioPercent == 90

\* ContentGuards whose last test does not read the instruction.
ContentGuardsKeywordBlind(relpath, instruction, o, new) ==
    With(_guard_future_import(o, new), LAMBDA fut :
    With(_similarity_ratio(o, new), LAMBDA ratio :
    With(Lower(PathName(relpath)) = README_MD, LAMBDA is_readme :
        IF ~fut.ok THEN [ok |-> FALSE, why |-> fut.why]
        ELSE IF is_readme /\ ~_allow_big_rewrite(instruction)
                /\ RatioBelow(ratio, ReadmeRatioPercent)
        THEN [ok |-> FALSE, why |-> "README rewrite blocked"]
        ELSE IF RatioBelow(ratio, MinRatioPercent)
        THEN [ok |-> FALSE, why |-> "rewrite too violent"]
        ELSE [ok |-> TRUE, why |-> ""])))

\* guards.py 162-193: the guards on a new that differs from old
ContentGuards(relpath, instruction, o, new) ==
    With(_guard_future_import(o, new), LAMBDA fut :
    With(_similarity_ratio(o, new), LAMBDA ratio :
    With(Lower(PathName(relpath)) = README_MD, LAMBDA is_readme :
        IF ~fut.ok THEN [ok |-> FALSE, why |-> fut.why]
        ELSE IF is_readme /\ ~_allow_big_rewrite(instruction)
                /\ RatioBelow(ratio, ReadmeRatioPercent)
        THEN [ok |-> FALSE, why |-> "README rewrite blocked"]
        ELSE IF ~_allow_big_rewrite(instruction) /\ RatioBelow(ratio, MinRatioPercent)
        THEN [ok |-> FALSE, why |-> "rewrite too violent"]
        ELSE [ok |-> TRUE, why |-> ""])))

\* enforce_guards with the no-op test before the control-character test.
EnforceGuardsNoOpFirst(relpath, instruction, o, new) ==
    IF o = new THEN [ok |-> TRUE, why |-> ""]
    ELSE IF _has_control_chars(new) THEN [ok |-> FALSE, why |-> "control_chars"]
    ELSE ContentGuards(relpath, instruction, o, new)

\* enforce_guards without the no-op test.
EnforceGuardsWithoutNoOp(relpath, instruction, o, new) ==
    IF _has_control_chars(new) THEN [ok |-> FALSE, why |-> "control_chars"]
    ELSE ContentGuards(relpath, instruction, o, new)

\* guards.py 143-193: [ok, why]; why without the "guard: " prefix and, for
\* "rewrite too violent", without the similarity figure.
enforce_guards(relpath, instruction, o, new) ==
    IF _has_control_chars(new) THEN [ok |-> FALSE, why |-> "control_chars"]
    ELSE IF o = new THEN [ok |-> TRUE, why |-> ""]
    ELSE ContentGuards(relpath, instruction, o, new)

(***************************************************************************)
(* tools/coder.py: the patch of a full text, difflib.unified_diff          *)
(***************************************************************************)
RECURSIVE MatchingBlocks(_, _, _, _, _, _)
\* SequenceMatcher.get_matching_blocks() without its final (la, lb, 0): the
\* longest match, then the blocks on its left and on its right, in order.
\* No two of them are adjacent, as no junk is set.
MatchingBlocks(a, b, alo, ahi, blo, bhi) ==
    With(FindLongestMatch(a, b, alo, ahi, blo, bhi), LAMBDA m :
    With(m[1], LAMBDA i :
    With(m[2], LAMBDA j :
    With(m[3], LAMBDA k :
        IF k = 0 THEN <<>>
        ELSE (IF alo < i /\ blo < j
              THEN MatchingBlocks(a, b, alo, i, blo, j) ELSE <<>>)
             \o <<m>>
             \o (IF i + k < ahi /\ j + k < bhi
                 THEN MatchingBlocks(a, b, i + k, ahi, j + k, bhi) ELSE <<>>)))))

Opcode(tag, i1, i2, j1, j2) ==
    [tag |-> tag, i1 |-> i1, i2 |-> i2, j1 |-> j1, j2 |-> j2]

RECURSIVE OpcodesFrom(_, _, _)
\* The loop of SequenceMatcher.get_opcodes() over the matching blocks, the
\* final (la, lb, 0) included; i, j are the ends of the block before.
OpcodesFrom(blocks, i, j) ==
    IF blocks = <<>> THEN <<>>
    ELSE With(Head(blocks)[1], LAMBDA ai :
         With(Head(blocks)[2], LAMBDA bj :
         With(Head(blocks)[3], LAMBDA size :
         With(IF i < ai /\ j < bj THEN "replace"
              ELSE IF i < ai THEN "delete"
              ELSE IF j < bj THEN "insert"
              ELSE "", LAMBDA tag :
             (IF tag # "" THEN <<Opcode(tag, i, ai, j, bj)>> ELSE <<>>)
             \o (IF size > 0
                 THEN <<Opcode("equal", ai, ai + size, bj, bj + size)>> ELSE <<>>)
             \o OpcodesFrom(Tail(blocks), ai + size, bj + size)))))

\* SequenceMatcher(None, a, b).get_opcodes()
get_opcodes(a, b) ==
    OpcodesFrom(MatchingBlocks(a, b, 0, Len(a), 0, Len(b)) \o <<<<Len(a), Len(b), 0>>>>,
                0, 0)

Max(x, y) == IF x >= y THEN x ELSE y
Min(x, y) == IF x <= y THEN x ELSE y

\* difflib.unified_diff: n, the lines of context
ContextLines == 3

\* get_grouped_opcodes: the first and the last opcode, when they are equal
\* ranges, keep ContextLines lines at most.
FixupEnds(codes) ==
    With(ContextLines, LAMBDA n :
    With(IF codes = <<>> THEN <<Opcode("equal", 0, 1, 0, 1)>> ELSE codes, LAMBDA c0 :
    With(c0[1], LAMBDA f :
    With(IF f.tag = "equal"
         THEN [c0 EXCEPT ![1] = Opcode("equal", Max(f.i1, f.i2 - n), f.i2,
                                       Max(f.j1, f.j2 - n), f.j2)]
         ELSE c0, LAMBDA c1 :
    With(c1[Len(c1)], LAMBDA l :
        IF l.tag = "equal"
        THEN [c1 EXCEPT ![Len(c1)] = Opcode("equal", l.i1, Min(l.i2, l.i1 + n),
                                            l.j1, Min(l.j2, l.j1 + n))]
        ELSE c1)))))

RECURSIVE GroupsFrom(_, _, _)
\* The loop of get_grouped_opcodes: group is the group being filled, groups
\* the groups already yielded.
GroupsFrom(codes, group, groups) ==
    With(ContextLines, LAMBDA n :
        IF codes = <<>>
        THEN IF group # <<>> /\ ~(Len(group) = 1 /\ group[1].tag = "equal")
             THEN Append(groups, group) ELSE groups
        ELSE With(Head(codes), LAMBDA c :
                 IF c.tag = "equal" /\ c.i2 - c.i1 > n + n
                 THEN GroupsFrom(Tail(codes),
                        <<Opcode("equal", Max(c.i1, c.i2 - n), c.i2,
                                 Max(c.j1, c.j2 - n), c.j2)>>,
                        Append(groups,
                               Append(group, Opcode("equal", c.i1, Min(c.i2, c.i1 + n),
                                                    c.j1, Min(c.j2, c.j1 + n)))))
                 ELSE GroupsFrom(Tail(codes), Append(group, c), groups)))

\* SequenceMatcher(None, a, b).get_grouped_opcodes(3)
get_grouped_opcodes(a, b) == GroupsFrom(FixupEnds(get_opcodes(a, b)), <<>>, <<>>)

DigitChars == <<"0", "1", "2", "3", "4", "5", "6", "7", "8", "9">>

RECURSIVE ToStr(_)
\* str(n) for n >= 0
ToStr(n) ==
    IF n < 10 THEN <<DigitChars[n + 1]>>
    ELSE ToStr(n \div 10) \o <<DigitChars[(n % 10) + 1]>>

\* difflib._format_range_unified(start, stop)
_format_range_unified(start, stop) ==
    With(start + 1, LAMBDA beginning :
    With(stop - start, LAMBDA length :
        IF length = 1 THEN ToStr(beginning)
        ELSE ToStr(IF length = 0 THEN beginning - 1 ELSE beginning)
               \o <<",">> \o ToStr(length)))

\* The lines ls with the character c before each.
Prefixed(c, ls) == [k \in 1..Len(ls) |-> <<c>> \o ls[k]]

RECURSIVE GroupLines(_, _, _)
\* The lines unified_diff yields for the opcodes of one group.
GroupLines(a, b, group) ==
    IF group = <<>> THEN <<>>
    ELSE With(Head(group), LAMBDA c :
             (IF c.tag = "equal" THEN Prefixed(" ", Slice(a, c.i1, c.i2))
              ELSE (IF c.tag \in {"replace", "delete"}
                    THEN Prefixed("-", Slice(a, c.i1, c.i2)) ELSE <<>>)
                   \o (IF c.tag \in {"replace", "insert"}
                       THEN Prefixed("+", Slice(b, c.j1, c.j2)) ELSE <<>>))
             \o GroupLines(a, b, Tail(group)))

RECURSIVE HunksOf(_, _, _)
\* The hunk header and the lines of every group.
HunksOf(a, b, groups) ==
    IF groups = <<>> THEN <<>>
    ELSE With(Head(groups), LAMBDA group :
         With(group[1], LAMBDA first :
         With(group[Len(group)], LAMBDA last :
             << <<"@", "@", " ", "-">> \o _format_range_unified(first.i1, last.i2)
                  \o <<" ", "+">> \o _format_range_unified(first.j1, last.j2)
                  \o <<" ", "@", "@", "\n">> >>
             \o GroupLines(a, b, group)
             \o HunksOf(a, b, Tail(groups)))))

\* difflib.unified_diff(a, b, fromfile=fromfile, tofile=tofile)
unified_diff(a, b, fromfile, tofile) ==
    With(get_grouped_opcodes(a, b), LAMBDA groups :
        IF groups = <<>> THEN <<>>
        ELSE << <<"-", "-", "-", " ">> \o fromfile \o <<"\n">>,
                <<"+", "+", "+", " ">> \o tofile \o <<"\n">> >>
             \o HunksOf(a, b, groups))

\* coder.py 375-383
_make_patch_from_fulltext(path, o, new) ==
    Join(unified_diff(_split_lines_keepends(o), _split_lines_keepends(new),
                      path \o <<" ", "(", "o", "l", "d", ")">>,
                      path \o <<" ", "(", "n", "e", "w", ")">>))

(***************************************************************************)
(* tools/coder.py: the future-import guard and its autofix                 *)
(***************************************************************************)
\* U+FEFF and U+200B, each written as a token that stands for one character.
BOM == "\\ufeff"
ZWSP == "\\u200b"

\* coder.py 392
_BOM_ZW == {BOM, ZWSP}

RECURSIVE _strip_bom_zw(_)
\* coder.py 395-396
_strip_bom_zw(s) ==
    IF s # <<>> /\ Head(s) \in _BOM_ZW THEN _strip_bom_zw(Tail(s)) ELSE s

\* coder.py 399-400
_is_effectively_blank(s) == Strip(_strip_bom_zw(s)) = <<>>

\* _strip_bom_zw(ln).lstrip().startswith("from __future__ import")
IsFutureLineBomZw(ln) == StartsWith(LStrip(_strip_bom_zw(ln)), FromFutureImport)

RECURSIVE SkipBlankAndCommentsBomZw(_, _)
\* coder.py 418-427: i after the blank lines and the comments from i on
SkipBlankAndCommentsBomZw(lines, i) ==
    IF i < Len(lines)
       /\ (\/ _is_effectively_blank(lines[i + 1])
           \/ StartsWith(LStrip(_strip_bom_zw(lines[i + 1])), <<"#">>))
    THEN SkipBlankAndCommentsBomZw(lines, i + 1) ELSE i

\* coder.py 429-441: i after the module docstring that starts at i, if one does
SkipDocstringBomZw(lines, i) ==
    IF i >= Len(lines) THEN i
    ELSE With(LStrip(_strip_bom_zw(lines[i + 1])), LAMBDA s0 :
         With(IF StartsWith(s0, _TRIPLE_DQ) THEN _TRIPLE_DQ ELSE _TRIPLE_SQ, LAMBDA q :
             IF StartsWith(s0, _TRIPLE_DQ) \/ StartsWith(s0, _TRIPLE_SQ)
             THEN IF CountOf(s0, q) >= 2 THEN i + 1
                  ELSE SkipToDocstringEnd(lines, i + 1, q)
             ELSE i))

RECURSIVE SkipBlankBomZw(_, _)
\* coder.py 443-444
SkipBlankBomZw(lines, i) ==
    IF i < Len(lines) /\ _is_effectively_blank(lines[i + 1])
    THEN SkipBlankBomZw(lines, i + 1) ELSE i

\* The index where a module's first statement stands: after the blank lines,
\* the comments and the docstring (coder.py 418-441, 480-503, 519-542).
FirstStatement(lines) ==
    SkipDocstringBomZw(lines, SkipBlankAndCommentsBomZw(lines, 0))

\* coder.py 403-456: [ok, why]
_future_import_guard(o, new) ==
    With(SplitLines(o), LAMBDA old_lines :
    With(SplitLines(new), LAMBDA new_lines :
    With(SkipBlankBomZw(new_lines, FirstStatement(new_lines)), LAMBDA i :
        IF ~\E k \in 1..Len(old_lines) : IsFutureLine(old_lines[k])
        THEN [ok |-> TRUE, why |-> ""]
        ELSE IF ~\E k \in 1..Len(new_lines) : IsFutureLineBomZw(new_lines[k])
        THEN [ok |-> FALSE, why |-> "future_import_removed"]
        ELSE IF ~(i < Len(new_lines) /\ IsFutureLineBomZw(new_lines[i + 1]))
        THEN [ok |-> FALSE, why |-> "future_import_moved"]
        ELSE [ok |-> TRUE, why |-> ""])))

\* [f(x) for x in lines if IsFutureLineBomZw(x)], f the stripping of the
\* leading BOM, zero-width spaces and whitespace
FutureLinesOf(lines) ==
    With(SelectSeq(lines, IsFutureLineBomZw), LAMBDA fut :
        [k \in 1..Len(fut) |-> LStrip(_strip_bom_zw(fut[k]))])

NotFutureLineBomZw(ln) == ~IsFutureLineBomZw(ln)

\* coder.py 505-507, 544-546: the future lines put where the first statement
\* of rest stands, kept if the guard accepts the text and dropped for new if
\* it does not
FutureLinesPlaced(o, new, rest, fut_lines) ==
    With(FirstStatement(rest), LAMBDA i :
    With(Join(Take(rest, i) \o fut_lines \o Drop(rest, i)), LAMBDA fixed :
        IF _future_import_guard(o, fixed).ok THEN fixed ELSE new))

\* coder.py 459-546
_autofix_future_import(o, new) ==
    With(FutureLinesOf(_split_lines_keepends(o)), LAMBDA old_future :
    With(_split_lines_keepends(new), LAMBDA new_lines :
    With(FutureLinesOf(new_lines), LAMBDA fut_lines :
    With(_future_import_guard(o, new), LAMBDA guarded :
        IF old_future = <<>> THEN new
        ELSE IF new_lines = <<>> THEN new
        ELSE IF fut_lines = <<>>
        THEN FutureLinesPlaced(o, new, new_lines, old_future)
        ELSE IF guarded.ok THEN new
        ELSE IF guarded.why # "future_import_moved" THEN new
        ELSE FutureLinesPlaced(o, new, SelectSeq(new_lines, NotFutureLineBomZw),
                               fut_lines)))))

(***************************************************************************)
(* tools/coder.py: what is read out of a model answer                      *)
(***************************************************************************)
\* s.find(pat) from the 0-based position k on: the position, or -1
FindFrom(s, pat, k) ==
    With({p \in k..(Len(s) - Len(pat)) : SubSeq(s, p + 1, p + Len(pat)) = pat}, LAMBDA found :
        IF found = {} THEN -1
        ELSE CHOOSE p \in found : \A q \in found : p <= q)

\* s.rfind(pat): the last position, or -1
RFind(s, pat) ==
    With({p \in 0..(Len(s) - Len(pat)) : SubSeq(s, p + 1, p + Len(pat)) = pat}, LAMBDA found :
        IF found = {} THEN -1
        ELSE CHOOSE p \in found : \A q \in found : p >= q)

RECURSIVE ReplaceAll(_, _, _)
\* s.replace(pat, rep) for a pat that is not empty
ReplaceAll(s, pat, rep) ==
    With(FindFrom(s, pat, 0), LAMBDA p :
        IF p = -1 THEN s
        ELSE SubSeq(s, 1, p) \o rep \o ReplaceAll(Drop(s, p + Len(pat)), pat, rep))

\* coder.py 57-76
_maybe_unescape_llm_string(s) ==
    IF Contains(s, <<"\\", "n">>) /\ ~Contains(s, <<"\n">>)
    THEN With(ReplaceAll(s, <<"\\", "r", "\\", "n">>, <<"\n">>), LAMBDA s1 :
         With(ReplaceAll(s1, <<"\\", "n">>, <<"\n">>), LAMBDA s2 :
         With(ReplaceAll(s2, <<"\\", "r">>, <<"\r">>), LAMBDA s3 :
         With(ReplaceAll(s3, <<"\\", "t">>, <<"\t">>), LAMBDA s4 :
         With(ReplaceAll(s4, <<"\\", "\"">>, <<"\"">>), LAMBDA s5 :
         With(ReplaceAll(s5, <<"\\", "'">>, <<"'">>), LAMBDA s6 :
             ReplaceAll(s6, <<"\\", "\\">>, <<"\\">>)))))))
    ELSE s

\* The character U+0060, written as a token that stands for it.
BACKTICK == "\\x60"

FENCE == <<BACKTICK, BACKTICK, BACKTICK>>

\* coder.py 79-90
_strip_fences(raw) ==
    With(Strip(raw), LAMBDA s :
    With(SplitLines(s), LAMBDA lines :
    With(IF lines # <<>> /\ StartsWith(LStrip(lines[1]), FENCE)
         THEN Tail(lines) ELSE lines, LAMBDA l1 :
    With(IF l1 # <<>> /\ StartsWith(LStrip(l1[Len(l1)]), FENCE)
         THEN Take(l1, Len(l1) - 1) ELSE l1, LAMBDA l2 :
        IF StartsWith(s, FENCE) THEN Strip(JoinWith(l2, <<"\n">>)) ELSE s))))

\* coder.py 103-117
_unescape_json_string_fragment(s) ==
    With(ReplaceAll(s, <<"\\", "r", "\\", "n">>, <<"\n">>), LAMBDA s1 :
    With(ReplaceAll(s1, <<"\\", "n">>, <<"\n">>), LAMBDA s2 :
    With(ReplaceAll(s2, <<"\\", "r">>, <<"\r">>), LAMBDA s3 :
    With(ReplaceAll(s3, <<"\\", "t">>, <<"\t">>), LAMBDA s4 :
    With(ReplaceAll(s4, <<"\\", "\"">>, <<"\"">>), LAMBDA s5 :
    With(ReplaceAll(s5, <<"\\", "/">>, <<"/">>), LAMBDA s6 :
        ReplaceAll(s6, <<"\\", "\\">>, <<"\\">>)))))))

\* A value that may be None: [some, text]
None == [some |-> FALSE, text |-> <<>>]
Some(text) == [some |-> TRUE, text |-> text]

CONTENT_KEY == <<"\"", "c", "o", "n", "t", "e", "n", "t", "\"">>

RECURSIVE StringBodyEnd(_, _)
\* The position (1-based) of the first '"' of s from k on that no backslash
\* escapes, the end of (?:\\.|[^"\\])*; 0 when a lone backslash ends s or no
\* '"' follows.
StringBodyEnd(s, k) ==
    IF k > Len(s) THEN 0
    ELSE IF s[k] = "\"" THEN k
    ELSE IF s[k] = "\\" THEN (IF k + 1 > Len(s) THEN 0 ELSE StringBodyEnd(s, k + 2))
    ELSE StringBodyEnd(s, k + 1)

\* _CONTENT_FIELD_RE matched at the 0-based position p of txt: the body, or None
ContentFieldAt(txt, p) ==
    With(SkipWhile(txt, p + Len(CONTENT_KEY) + 1, Whitespace), LAMBDA k1 :
    With(SkipWhile(txt, k1 + 1, Whitespace), LAMBDA k2 :
    With(StringBodyEnd(txt, k2 + 1), LAMBDA e :
    With(SkipWhile(txt, e + 1, Whitespace), LAMBDA k3 :
    With(IF k3 <= Len(txt) /\ txt[k3] \in {"}", "]"} THEN k3 + 1 ELSE k3, LAMBDA k4 :
    With(SkipWhile(txt, k4, Whitespace), LAMBDA k5 :
        IF /\ SubSeq(txt, p + 1, p + Len(CONTENT_KEY)) = CONTENT_KEY
           /\ k1 <= Len(txt) /\ txt[k1] = ":"
           /\ k2 <= Len(txt) /\ txt[k2] = "\""
           /\ e # 0
           /\ (k3 > Len(txt) \/ k5 > Len(txt))
        THEN Some(SubSeq(txt, k2 + 1, e - 1))
        ELSE None))))))

CONTENT_NEEDLE == <<"\"", "c", "o", "n", "t", "e", "n", "t", "\"", ":", " ", "\"">>

\* coder.py 120-145
_extract_fulltext_content_salvage(raw) ==
    With(Strip(raw), LAMBDA txt :
    With({p \in 0..(Len(txt) - Len(CONTENT_KEY)) : ContentFieldAt(txt, p).some}, LAMBDA hits :
    With(FindFrom(txt, CONTENT_NEEDLE, 0), LAMBDA j :
    With(Drop(txt, j + Len(CONTENT_NEEDLE)), LAMBDA frag :
    With(RFind(frag, <<"\"">>), LAMBDA k :
        IF raw = <<>> THEN None
        ELSE IF hits # {}
        THEN Some(_unescape_json_string_fragment(
                ContentFieldAt(txt, CHOOSE p \in hits : \A q \in hits : p <= q).text))
        ELSE IF j # -1 /\ k > 0
        THEN Some(_unescape_json_string_fragment(Take(frag, k)))
        ELSE None)))))

EnvelopeEnds ==
    { <<"\"">>, <<"\"", "}">>, <<"\"", "}", ",">>, <<"}">>, <<"}", ",">> }

RECURSIVE DropEnvelopeEnd(_)
\* coder.py 171-172
DropEnvelopeEnd(body) ==
    IF body # <<>> /\ Strip(body[Len(body)]) \in EnvelopeEnds
    THEN DropEnvelopeEnd(Take(body, Len(body) - 1)) ELSE body

\* s.lstrip("\n")
LStripLf(s) == Drop(s, SkipWhile(s, 1, {"\n"}) - 1)

\* coder.py 148-174
_salvage_broken_content_envelope(raw) ==
    With(SplitLines(raw), LAMBDA lines :
        IF Len(lines) < 3 THEN None
        ELSE IF Strip(lines[1]) # <<"{">> THEN None
        ELSE IF ~StartsWith(LStrip(lines[2]), CONTENT_NEEDLE) THEN None
        ELSE Some(LStripLf(JoinWith(DropEnvelopeEnd(Drop(lines, 2)), <<"\n">>))))

AT_AT == <<"@", "@">>

\* coder.py 211-221
_extract_diff_fallback(raw) ==
    With(FindFrom(raw, AT_AT, 0), LAMBDA i :
    With(_normalize_unified_diff(Drop(raw, i)), LAMBDA guess :
        IF i = -1 THEN None
        ELSE IF Contains(guess, AT_AT) THEN Some(guess) ELSE None))

\* coder.py 224-240
_ensure_display_diff(path, p) ==
    With(<<"-", "-", "-", " ", "a", "/">> \o path \o <<"\n">>
           \o <<"+", "+", "+", " ", "b", "/">> \o path \o <<"\n">> \o p, LAMBDA out :
        IF ~Contains(p, AT_AT) THEN p
        ELSE IF StartsWith(LStrip(p), <<"-", "-", "-", " ">>)
        THEN (IF EndsWith(p, <<"\n">>) THEN p ELSE p \o <<"\n">>)
        ELSE IF EndsWith(out, <<"\n">>) THEN out ELSE out \o <<"\n">>)

(***************************************************************************)
(* util_json.py: loads_obj and what it calls. The alphabet of the texts    *)
(* holds { } " ' : , ` \ space, LF, FF, SOH, U+2028 and letters; no digit, *)
(* no [, no word true, false, null, NaN or Infinity outside a string, and  *)
(* after a backslash only " \ ' n r t f or LF.                             *)
(***************************************************************************)
\* util_json.py 12: the characters _CTRL_RE matches, of the alphabet
CtrlChars == {"\f", SOH}

\* _CTRL_RE.sub("", s)
_CTRL_RE_sub(s) == SelectSeq(s, LAMBDA c : c \notin CtrlChars)

\* util_json.py 7: _FENCE_RE.match(line), ^\s*```(?:json)?\s*$ whatever the case
_FENCE_RE(line) ==
    With(LStrip(line), LAMBDA l :
        /\ StartsWith(l, FENCE)
        /\ Lower(RStrip(Drop(l, 3))) \in {<<>>, <<"j", "s", "o", "n">>})

\* util_json.py 15-26
_strip_code_fences(text) ==
    With(Strip(text), LAMBDA s :
    With(SplitLines(s), LAMBDA lines :
    With(IF Len(lines) > 1 /\ _FENCE_RE(lines[Len(lines)])
         THEN SubSeq(lines, 2, Len(lines) - 1)
         ELSE Tail(lines), LAMBDA inner :
        IF s = <<>> THEN s
        ELSE IF _FENCE_RE(lines[1]) THEN Strip(JoinWith(inner, <<"\n">>))
        ELSE s)))

\* json.decoder WHITESPACE
JsonWs == {" ", "\t", "\n", "\r"}

\* A value as json.loads returns it: a str, s its characters, or a dict, m
\* the function from its keys to their values.
JStr(s) == [t |-> "str", s |-> s, m |-> <<>>]

JObj(m) == [t |-> "obj", s |-> <<>>, m |-> m]

\* The decoder raises.
JFail == [ok |-> FALSE, v |-> JStr(<<>>), end |-> 0]

\* The decoder returns v; end is the position (1-based) after its text.
JOk(v, end) == [ok |-> TRUE, v |-> v, end |-> end]

\* json.decoder BACKSLASH, for the characters of the alphabet that may follow
\* a backslash
JsonEscapes ==
    ("\"" :> "\"") @@ ("\\" :> "\\") @@ ("/" :> "/") @@ ("n" :> "\n")
        @@ ("r" :> "\r") @@ ("t" :> "\t") @@ ("f" :> "\f")

\* Of a string begun at position k of s: position p follows the backslash of
\* an escape, the run of backslashes just before it being odd.
IsEscaped(s, k, p) ==
    With({q \in k..(p - 1) : s[q] # "\\"}, LAMBDA others :
    With(IF others = {} THEN k - 1 ELSE CHOOSE q \in others : \A r \in others : q >= r, LAMBDA last :
        (p - 1 - last) % 2 = 1))

\* json.decoder scanstring, strict, of the string whose opening quote stands
\* before position k: it ends at the first quote no escape holds, raises on a
\* control character and on an escape it does not know, and decodes the others
ScanString(s, k) ==
    With(FirstIn([p \in 1..Len(s) |-> IF p >= k /\ s[p] = "\"" /\ ~IsEscaped(s, k, p)
                                      THEN "close" ELSE ""], k, {"close"}), LAMBDA q :
    With(SelectSeq([i \in 1..(q - k) |-> k + i - 1],
                   LAMBDA p : s[p] # "\\" \/ IsEscaped(s, k, p)), LAMBDA kept :
        IF q > Len(s) THEN JFail
        ELSE IF \E p \in k..(q - 1) :
                    \/ IsEscaped(s, k, p) /\ s[p] \notin DOMAIN JsonEscapes
                    \/ s[p] \in Below32
        THEN JFail
        ELSE JOk(JStr([i \in 1..Len(kept) |->
                        IF IsEscaped(s, k, kept[i]) THEN JsonEscapes[s[kept[i]]]
                        ELSE s[kept[i]]]), q + 1)))

RECURSIVE ParseValue(_, _)
RECURSIVE ParsePairs(_, _, _)
\* json.scanner scan_once(s, idx): the value that starts at position k
ParseValue(s, k) ==
    IF k > Len(s) THEN JFail
    ELSE IF s[k] = "\"" THEN ScanString(s, k + 1)
    ELSE IF s[k] = "{"
    THEN With(SkipWhile(s, k + 1, JsonWs), LAMBDA p :
            IF p <= Len(s) /\ s[p] = "}" THEN JOk(JObj(<<>>), p + 1)
            ELSE ParsePairs(s, p, <<>>))
    ELSE JFail

\* json.decoder JSONObject: the pairs from position k on, where a key is due;
\* m holds the pairs read, a later pair replacing an earlier one of its key
ParsePairs(s, k, m) ==
    IF k > Len(s) \/ s[k] # "\"" THEN JFail
    ELSE With(ScanString(s, k + 1), LAMBDA key :
         With(SkipWhile(s, key.end, JsonWs), LAMBDA c :
         With(ParseValue(s, SkipWhile(s, c + 1, JsonWs)), LAMBDA val :
         With(SkipWhile(s, val.end, JsonWs), LAMBDA e :
         With([x \in DOMAIN m \cup {key.v.s} |-> IF x = key.v.s THEN val.v ELSE m[x]], LAMBDA m2 :
            IF ~key.ok THEN JFail
            ELSE IF c > Len(s) \/ s[c] # ":" THEN JFail
            ELSE IF ~val.ok THEN JFail
            ELSE IF e > Len(s) THEN JFail
            ELSE IF s[e] = "}" THEN JOk(JObj(m2), e + 1)
            ELSE IF s[e] = "," THEN ParsePairs(s, SkipWhile(s, e + 1, JsonWs), m2)
            ELSE JFail)))))

\* json.loads(s)
json_loads(s) ==
    With(ParseValue(s, SkipWhile(s, 1, JsonWs)), LAMBDA r :
        IF r.ok /\ SkipWhile(s, r.end, JsonWs) > Len(s) THEN r ELSE JFail)

\* util_json.py 29-51: extract_json_object(raw)
extract_json_object(raw) ==
    With(_strip_code_fences(raw), LAMBDA s :
    With(FindFrom(s, <<"{">>, 0), LAMBDA start :
    With(ParseValue(s, start + 1), LAMBDA dec :
    With(RFind(s, <<"}">>), LAMBDA end :
        IF start = -1 THEN s
        ELSE IF dec.ok THEN Slice(s, start, dec.end - 1)
        ELSE IF end # -1 /\ end > start THEN Slice(s, start, end + 1)
        ELSE Drop(s, start)))))

\* [A-Za-z_] and [A-Za-z0-9_]
IdentStart == {LowerCase[n] : n \in 1..26} \cup {UpperCase[n] : n \in 1..26} \cup {"_"}

IdentChars == IdentStart \cup Digits

\* A regex finds nothing.
NoMatch == [at |-> 0, end |-> 0, repl |-> <<>>]

\* The first position from k on where Match finds something, 0 for want of one
FirstMatch(s, k, Match(_, _)) ==
    With({p \in k..Len(s) : Match(s, p) # NoMatch}, LAMBDA found :
        IF found = {} THEN 0
        ELSE CHOOSE p \in found : \A q \in found : p <= q)

\* util_json.py 9, 71: _SINGLE_QUOTE_KEY_RE at position k, {\s*'([^']+)'\s*: ,
\* and r'{"\1":' in its place
SingleQuoteKeyAt(s, k) ==
    With(SkipWhile(s, k + 1, Whitespace), LAMBDA q1 :
    With(FirstIn(s, q1 + 1, {"'"}), LAMBDA q2 :
    With(SkipWhile(s, q2 + 1, Whitespace), LAMBDA c :
        IF /\ s[k] = "{"
           /\ q1 <= Len(s) /\ s[q1] = "'"
           /\ q2 <= Len(s) /\ q2 > q1 + 1
           /\ c <= Len(s) /\ s[c] = ":"
        THEN [at |-> k, end |-> c,
              repl |-> <<"{", "\"">> \o SubSeq(s, q1 + 1, q2 - 1) \o <<"\"", ":">>]
        ELSE NoMatch)))

RECURSIVE SubSingleQuoteKeys(_, _)
\* _SINGLE_QUOTE_KEY_RE.sub(r'{"\1":', s), from position k
SubSingleQuoteKeys(s, k) ==
    With(FirstMatch(s, k, SingleQuoteKeyAt), LAMBDA p :
        IF p = 0 THEN Drop(s, k - 1)
        ELSE SubSeq(s, k, p - 1) \o SingleQuoteKeyAt(s, p).repl
                \o SubSingleQuoteKeys(s, SingleQuoteKeyAt(s, p).end + 1))

\* util_json.py 8, 72: _UNQUOTED_KEY_RE at position k,
\* ([{\s,])([A-Za-z_][A-Za-z0-9_]*)\s*: wherever it stands, and r'\1"\2":' in
\* its place
UnquotedKeyAt(s, k) ==
    With(SkipWhile(s, k + 1, IdentChars), LAMBDA e :
    With(SkipWhile(s, e, Whitespace), LAMBDA c :
        IF /\ s[k] \in {"{", ","} \cup Whitespace
           /\ k < Len(s) /\ s[k + 1] \in IdentStart
           /\ c <= Len(s) /\ s[c] = ":"
        THEN [at |-> k, end |-> c,
              repl |-> <<s[k], "\"">> \o SubSeq(s, k + 1, e - 1) \o <<"\"", ":">>]
        ELSE NoMatch))

RECURSIVE SubUnquotedKeys(_, _)
\* _UNQUOTED_KEY_RE.sub(r'\1"\2":', s), from position k
SubUnquotedKeys(s, k) ==
    With(FirstMatch(s, k, UnquotedKeyAt), LAMBDA p :
        IF p = 0 THEN Drop(s, k - 1)
        ELSE SubSeq(s, k, p - 1) \o UnquotedKeyAt(s, p).repl
                \o SubUnquotedKeys(s, UnquotedKeyAt(s, p).end + 1))

\* ((?:\\'|[^'])*)' read from position p: the position of the closing quote,
\* the first one no backslash stands before, or for want of it the last one
\* a backslash stands before; 0 when there is none
SqClose(s, p) ==
    With({q \in p..Len(s) : s[q] = "'"}, LAMBDA quotes :
    With({q \in quotes : q = p \/ s[q - 1] # "\\"}, LAMBDA bare :
        IF bare # {} THEN CHOOSE q \in bare : \A r \in bare : q <= r
        ELSE IF quotes # {} THEN CHOOSE q \in quotes : \A r \in quotes : q >= r
        ELSE 0))

\* util_json.py 74-80: :\s*'((?:\\'|[^'])*)' at position k, and _sq_val of it
\* in its place
SingleQuoteValueAt(s, k) ==
    With(SkipWhile(s, k + 1, Whitespace), LAMBDA q :
    With(SqClose(s, q + 1), LAMBDA close :
        IF s[k] = ":" /\ q <= Len(s) /\ s[q] = "'" /\ close > 0
        THEN [at |-> k, end |-> close,
              repl |-> <<":", " ", "\"">>
                        \o ReplaceAll(ReplaceAll(SubSeq(s, q + 1, close - 1), <<"\\", "'">>, <<"'">>),
                                      <<"\"">>, <<"\\", "\"">>)
                        \o <<"\"">>]
        ELSE NoMatch))

RECURSIVE SubSingleQuoteValues(_, _)
\* re.sub(r":\s*'((?:\\'|[^'])*)'", _sq_val, s), from position k
SubSingleQuoteValues(s, k) ==
    With(FirstMatch(s, k, SingleQuoteValueAt), LAMBDA p :
        IF p = 0 THEN Drop(s, k - 1)
        ELSE SubSeq(s, k, p - 1) \o SingleQuoteValueAt(s, p).repl
                \o SubSingleQuoteValues(s, SingleQuoteValueAt(s, p).end + 1))

\* util_json.py 58-81
_repair_common_llm_json(s0) ==
    With(_CTRL_RE_sub(Strip(s0)), LAMBDA s :
        SubSingleQuoteValues(SubUnquotedKeys(SubSingleQuoteKeys(s, 1), 1), 1))

\* The escapes of the codec unicode_escape, for the characters of the alphabet
PyEscapes ==
    ("\\" :> "\\") @@ ("'" :> "'") @@ ("\"" :> "\"") @@ ("n" :> "\n")
        @@ ("r" :> "\r") @@ ("t" :> "\t") @@ ("f" :> "\f")

\* The bytes of U+2028 in UTF-8, each read as a character
LSEP_BYTES == <<"\\xe2", "\\x80", "\\xa8">>

RECURSIVE UnicodeEscape(_, _, _)
\* bytes(s, "utf-8").decode("unicode_escape") from position k: a backslash
\* and a line feed vanish, an escape it does not know stays, a backslash at
\* the end raises (ok FALSE), and each byte of a character that is not ASCII
\* becomes a character
UnicodeEscape(s, k, acc) ==
    IF k > Len(s) THEN [ok |-> TRUE, text |-> acc]
    ELSE IF s[k] = LSEP THEN UnicodeEscape(s, k + 1, acc \o LSEP_BYTES)
    ELSE IF s[k] # "\\" THEN UnicodeEscape(s, k + 1, Append(acc, s[k]))
    ELSE IF k = Len(s) THEN [ok |-> FALSE, text |-> <<>>]
    ELSE IF s[k + 1] = "\n" THEN UnicodeEscape(s, k + 2, acc)
    ELSE IF s[k + 1] \in DOMAIN PyEscapes
    THEN UnicodeEscape(s, k + 2, Append(acc, PyEscapes[s[k + 1]]))
    ELSE UnicodeEscape(s, k + 2, acc \o <<"\\", s[k + 1]>>)

\* util_json.py 84-95
_unescape_if_looks_escaped(s) ==
    With(UnicodeEscape(s, 1, <<>>), LAMBDA r :
        IF \E e \in {"n", "t", "\"", "r"} : Contains(s, <<"\\", e>>)
        THEN (IF r.ok THEN r.text ELSE s)
        ELSE s)

PayloadKeys == { <<"d", "i", "f", "f">>, <<"t", "e", "x", "t">>, <<"c", "o", "n", "t", "e", "n", "t">> }

\* util_json.py 98-103
_postprocess_obj(m) ==
    [k \in DOMAIN m |->
        IF k \in PayloadKeys /\ m[k].t = "str"
        THEN JStr(_unescape_if_looks_escaped(m[k].s)) ELSE m[k]]

\* What loads_obj does: it returns the dict value, or raises err.
JsonReturns(m) == [pc |-> "returned", err |-> "", value |-> m]

JsonRaises(err) == [pc |-> "raised", err |-> err, value |-> <<>>]

\* util_json.py 106-135
loads_obj(text) ==
    With(_CTRL_RE_sub(_strip_code_fences(text)), LAMBDA raw :
    With(json_loads(raw), LAMBDA first :
    With(_CTRL_RE_sub(Strip(extract_json_object(raw))), LAMBDA frag :
    With(json_loads(frag), LAMBDA second :
    With(json_loads(_repair_common_llm_json(frag)), LAMBDA third :
        IF first.ok /\ first.v.t = "obj" THEN JsonReturns(_postprocess_obj(first.v.m))
        ELSE IF second.ok /\ second.v.t = "obj" THEN JsonReturns(_postprocess_obj(second.v.m))
        ELSE IF ~third.ok THEN JsonRaises("JSONDecodeError")
        ELSE IF third.v.t # "obj" THEN JsonRaises("json_not_object")
        ELSE JsonReturns(_postprocess_obj(third.v.m)))))))

(***************************************************************************)
(* tools/coder.py: finalize, the full-text fallback and the rounds of      *)
(* edit_plan                                                               *)
(***************************************************************************)
\* A model answer, as _call_model returns it: raw is the text, parsed tells
\* whether loads_obj(raw) returns a mapping, and diff, content are the string
\* values of its "diff" and "content" keys, where it has them.
Answer(raw, parsed, has_diff, d, has_content, c) ==
    [raw |-> raw, parsed |-> parsed, has_diff |-> has_diff, diff |-> d,
     has_content |-> has_content, content |-> c]

\* The dict a driver function returns.  new is no key of it: it is the text
\* the guards accepted when ok is true.
Result(ok, error, detail, has_patch, patch, display, new) ==
    [ok |-> ok, error |-> error, detail |-> detail, has_patch |-> has_patch,
     patch |-> patch, diff |-> display, new |-> new]

NoResult == Result(FALSE, "", "", FALSE, <<>>, <<>>, <<>>)

\* coder.py 607, 613, 618: ok false, with the patch that was tried
Blocked(detail, patch) ==
    Result(FALSE, "guard_blocked", detail, TRUE, patch, <<>>, <<>>)

\* coder.py 680, 686: ok false, no patch
BlockedNoPatch(detail) ==
    Result(FALSE, "guard_blocked", detail, FALSE, <<>>, <<>>, <<>>)

\* guards.py 156, 174, 186, 191: the reasons as enforce_guards words them
GuardDetail(why) ==
    CASE why = "control_chars" -> "guard: control_chars"
      [] why = "future_import_removed" -> "guard: future_import_removed"
      [] why = "future_import_moved" -> "guard: future_import_moved"
      [] why = "README rewrite blocked" -> "guard: README rewrite blocked"
      [] why = "rewrite too violent" -> "guard: rewrite too violent"
      [] OTHER -> why

DOT_PY == <<".", "p", "y">>

\* coder.py 553-560; compiles is what compile(content, path, "exec") says
_py_syntax_ok(path, compiles) == ~EndsWith(path, DOT_PY) \/ compiles

\* _finalize_ok that reports, on a failed probe, no reason of the
\* future-import guard but future_import_moved.
FinalizeOkMovedOnly(path, instruction, o, new, patch, compiles) ==
    With(_autofix_future_import(o, new), LAMBDA new2 :
    With(_future_import_guard(o, new2), LAMBDA fut :
    With(enforce_guards(path, instruction, o, new2), LAMBDA guarded :
    With(_make_patch_from_fulltext(path, o, new2), LAMBDA patch2 :
        IF ~_py_syntax_ok(path, compiles)
        THEN IF ~fut.ok /\ fut.why = "future_import_moved" THEN Blocked(fut.why, patch)
             ELSE Blocked("syntax_error_after_edit", patch)
        ELSE IF ~guarded.ok THEN Blocked(GuardDetail(guarded.why), patch)
        ELSE IF new2 # new
        THEN Result(TRUE, "", "", TRUE, patch2, _ensure_display_diff(path, patch2), new2)
        ELSE Result(TRUE, "", "", TRUE, patch, _ensure_display_diff(path, patch), new2)))))

\* coder.py 600-635; compiles is the outcome of the syntax probe on new2
_finalize_ok(path, instruction, o, new, patch, compiles) ==
    With(_autofix_future_import(o, new), LAMBDA new2 :
    With(_future_import_guard(o, new2), LAMBDA fut :
    With(enforce_guards(path, instruction, o, new2), LAMBDA guarded :
    With(_make_patch_from_fulltext(path, o, new2), LAMBDA patch2 :
        IF ~_py_syntax_ok(path, compiles)
        THEN IF ~fut.ok THEN Blocked(fut.why, patch)
             ELSE Blocked("syntax_error_after_edit", patch)
        ELSE IF ~guarded.ok THEN Blocked(GuardDetail(guarded.why), patch)
        ELSE IF new2 # new
        THEN Result(TRUE, "", "", TRUE, patch2, _ensure_display_diff(path, patch2), new2)
        ELSE Result(TRUE, "", "", TRUE, patch, _ensure_display_diff(path, patch), new2)))))

\* coder.py 653-672: the new text read out of the answer
FulltextOf(ans) ==
    With(_extract_fulltext_content_salvage(ans.raw), LAMBDA salv1 :
    With(_salvage_broken_content_envelope(ans.raw), LAMBDA salv2 :
        IF ans.parsed /\ ans.has_content THEN ans.content
        ELSE IF salv1.some /\ Strip(salv1.text) # <<>> THEN salv1.text
        ELSE IF salv2.some /\ Strip(salv2.text) # <<>> THEN salv2.text
        ELSE _strip_fences(ans.raw)))

\* coder.py 674-675: the text the fallback probes and guards
FallbackNew(o, ans) ==
    _autofix_future_import(o, _maybe_unescape_llm_string(FulltextOf(ans)))

\* coder.py 642-698; compiles1 is the outcome of the syntax probe on new,
\* compiles2 of the probe finalize makes
_fulltext_fallback(path, instruction, o, ans, compiles1, compiles2) ==
    With(FallbackNew(o, ans), LAMBDA new :
    With(_future_import_guard(o, new), LAMBDA fut :
    With(_make_patch_from_fulltext(path, o, new), LAMBDA patch :
        IF ~_py_syntax_ok(path, compiles1)
        THEN IF ~fut.ok THEN BlockedNoPatch(fut.why)
             ELSE BlockedNoPatch("syntax_error_after_edit")
        ELSE IF ~fut.ok THEN Blocked(fut.why, patch)
        ELSE _finalize_ok(path, instruction, o, new, patch, compiles2))))

\* data.get("diff", "")
DiffField(ans) == IF ans.has_diff THEN ans.diff ELSE <<>>

\* coder.py 750-755, 809-814: the diff of a guard-repair answer
RepairDiffOf(ans) ==
    With(_extract_diff_fallback(ans.raw), LAMBDA salvage :
        IF ans.parsed
        THEN _normalize_unified_diff(_maybe_unescape_llm_string(DiffField(ans)))
        ELSE IF salvage.some THEN salvage.text ELSE <<>>)

\* coder.py 716-729, 778-791: the diff of a round's answer
RoundDiffOf(ans) ==
    With(_extract_diff_fallback(ans.raw), LAMBDA salvage :
    With(RepairDiffOf(ans), LAMBDA first :
        IF ~Contains(first, AT_AT) /\ salvage.some THEN salvage.text ELSE first))

(***************************************************************************)
(* The inputs of the applier: texts made of a few lines.                   *)
(***************************************************************************)
\* Every text made of at most n lines of the palette, in any order.
TextsOf(palette, n) ==
    {Join(ls) : ls \in UNION {[1..k -> palette] : k \in 0..n}}

\* "@@ -<a> +<b> @@"
HunkHeader(a, b) ==
    <<"@", "@", " ", "-">> \o a \o <<" ", "+">> \o b \o <<" ", "@", "@">>

\* The texts old is drawn from: empty, LF and CRLF lines, a last line with no
\* terminator.
OldTexts ==
    { <<>>,
      <<"a", "\r", "\n", "b", "\n">>,
      <<"a", "\n", "b", "\n", "a", "\n">>,
      <<"b", "\n", "a">> }

DiffLinePalette ==
    { HunkHeader(<<"0", ",", "0">>, <<"1">>) \o <<"\n">>,
      HunkHeader(<<"1">>, <<"1">>) \o <<"\n">>,
      HunkHeader(<<"2">>, <<"2">>) \o <<"\n">>,
      HunkHeader(<<"9">>, <<"9">>) \o <<"\n">>,
      <<" ", "a", "\n">>,
      <<"-", "a", "\n">>,
      <<"+", "b", "\n">>,
      <<"\\", "\n">> }

DiffTexts == TextsOf(DiffLinePalette, MaxDiffLines)

(***************************************************************************)
(* The applier as a state machine: one call of apply_unified_diff(old,     *)
(* diff), a step per hunk header and per body line.                        *)
(***************************************************************************)
\* _resolve_repo_path not called
PathIdle == [pc |-> "idle", root |-> <<>>, rel |-> <<>>, err |-> "", path |-> <<>>]

\* What a handler has returned: nothing yet.
NoReturn ==
    [ok |-> FALSE, error |-> "", detail |-> "", written |-> FALSE, staged |-> FALSE,
     patch |-> <<>>]

\* apply_edit / apply_full_replace not called
HandlerIdle ==
    [pc |-> "idle", op |-> "", root |-> <<>>, path |-> <<>>, payload |-> <<>>,
     instruction |-> <<>>, stage |-> FALSE, backup |-> FALSE, disk |-> <<>>,
     links |-> <<>>, file |-> <<>>, old |-> <<>>, new |-> <<>>, patch |-> <<>>,
     tmp |-> <<>>, raising |-> FALSE, interrupted |-> FALSE, git |-> <<>>,
     result |-> NoReturn, before |-> <<>>, probed |-> {}, backed |-> ""]

\* No normalized diff yet.
NormIdle == [done |-> FALSE, text |-> <<>>]

\* edit_plan not called
EditIdle ==
    [pc |-> "idle", exists |-> FALSE, path |-> <<>>, instruction |-> <<>>,
     calls |-> 0, apply_err |-> "", out |-> NoResult, reason |-> "",
     result |-> NoResult, probed |-> {}, model_calls |-> <<>>,
     applied_g |-> FALSE, outg |-> NoResult]

\* No connection
ConnIdle ==
    [pc |-> "idle", peer |-> "", inbox |-> <<>>, data |-> <<>>, sent |-> <<>>,
     nsent |-> 0, nread |-> 0]

\* loads_obj not called
JsonIdle ==
    [pc |-> "idle", form |-> "", text |-> <<>>, bare |-> <<>>, err |-> "", value |-> <<>>]

\* The future-import checks not called
FutureIdle ==
    [pc |-> "idle", path |-> <<>>, old |-> <<>>, new |-> <<>>, new2 |-> <<>>, again |-> <<>>,
     coder |-> [ok |-> TRUE, why |-> ""], guards |-> [ok |-> TRUE, why |-> ""],
     compiles |-> TRUE, out |-> [ok |-> FALSE, error |-> "", detail |-> ""],
     step |-> [ok |-> FALSE, error |-> "", detail |-> ""]]

\* No daemon
ServerIdle ==
    [pc |-> "idle", running |-> 0, tasks |-> <<>>, left |-> <<>>, disk |-> <<>>,
     links |-> <<>>, git |-> <<>>, wrote |-> {}]

\* enforce_guards not called
GuardIdle ==
    [pc |-> "idle", relpath |-> <<>>, instruction |-> <<>>, new |-> <<>>,
     ok |-> FALSE, why |-> ""]

Init ==
    /\ old \in OldTexts
    /\ diff \in DiffTexts
    /\ ap = ApplyIdle
    /\ normalized = NormIdle
    /\ apn = ApplyIdle
    /\ guard = GuardIdle
    /\ ed = EditIdle
    /\ rp = PathIdle
    /\ ah = HandlerIdle
    /\ conn = ConnIdle
    /\ lj = JsonIdle
    /\ fi = FutureIdle
    /\ srv = ServerIdle

Enter ==
    /\ ap.pc = "call"
    /\ ap' = ApplyEnter(old, diff)
    /\ UNCHANGED applyFrame

Header ==
    /\ ap.pc = "header"
    /\ ap' = ApplyHeader(ap)
    /\ UNCHANGED applyFrame

BodyLine ==
    /\ ap.pc = "body"
    /\ InBody(ap)
    /\ ap' = ApplyBodyLine(ap)
    /\ UNCHANGED applyFrame

HunkEnd ==
    /\ ap.pc = "body"
    /\ ~InBody(ap)
    /\ ap' = ApplyHunkEnd(ap)
    /\ UNCHANGED applyFrame

Next == Enter \/ Header \/ BodyLine \/ HunkEnd

Spec == Init /\ [][Next]_vars

TypeOK == ap.pc \in {"call", "header", "body", "done", "error"}

(***************************************************************************)
(* The normalizer and the applier together: a raw diff is normalized, and  *)
(* both the raw and the normalized diff are applied to old.                *)
(***************************************************************************)
NormOldTexts ==
    { <<>>,
      <<"a", "\n">>,
      <<"a", "\r", "\n">> }

\* Raw diff lines as a model or a diff tool writes them: file headers, LF and
\* CRLF lines, a header with its first body line on the same line, an insert
\* whose text starts with "++ ", a last line with no terminator.
RawDiffLinePalette ==
    { <<"-", "-", "-", " ", "a", "\n">>,
      HunkHeader(<<"1">>, <<"1">>) \o <<"\n">>,
      HunkHeader(<<"1">>, <<"1">>) \o <<"\r", "\n">>,
      HunkHeader(<<"1">>, <<"1">>) \o <<" ", "+", "b", "\n">>,
      <<" ", "a", "\n">>,
      <<" ", "a", "\r", "\n">>,
      <<"-", "a", "\n">>,
      <<"+", "b", "\n">>,
      <<"+", "+", "+", " ", "b", "\n">>,
      <<"+", "b">> }

RawDiffTexts == TextsOf(RawDiffLinePalette, MaxDiffLines)

InitNorm ==
    /\ old \in NormOldTexts
    /\ diff \in RawDiffTexts
    /\ ap = ApplyIdle
    /\ normalized = NormIdle
    /\ apn = ApplyIdle
    /\ guard = GuardIdle
    /\ ed = EditIdle
    /\ rp = PathIdle
    /\ ah = HandlerIdle
    /\ conn = ConnIdle
    /\ lj = JsonIdle
    /\ fi = FutureIdle
    /\ srv = ServerIdle

\* normalized = _normalize_unified_diff(diff)
Normalize ==
    /\ ~normalized.done
    /\ normalized' = [done |-> TRUE, text |-> _normalize_unified_diff(diff)]
    /\ UNCHANGED <<old, diff, ap, apn, guard, ed, rp, ah, conn, lj, fi, srv>>

\* apply_unified_diff(old, diff), the whole call
ApplyRaw ==
    /\ ap.pc = "call"
    /\ ap' = apply_unified_diff(old, diff)
    /\ UNCHANGED <<old, diff, normalized, apn, guard, ed, rp, ah, conn, lj, fi, srv>>

\* apply_unified_diff(old, _normalize_unified_diff(diff)), the whole call
ApplyNormalized ==
    /\ normalized.done
    /\ apn.pc = "call"
    /\ apn' = apply_unified_diff(old, normalized.text)
    /\ UNCHANGED <<old, diff, ap, normalized, guard, ed, rp, ah, conn, lj, fi, srv>>

NextNorm == Normalize \/ ApplyRaw \/ ApplyNormalized

SpecNorm == InitNorm /\ [][NextNorm]_vars

(***************************************************************************)
(* enforce_guards on texts of a few lines.                                 *)
(***************************************************************************)
MaxGuardLines == 2      \* new is made of at most this many palette pieces
MaxGuardOldLines == 2   \* old is made of at most this many palette pieces

\* The pieces old is made of: a future import, a statement, a line with a
\* control character.
GuardOldPalette ==
    { <<"f", "r", "o", "m", " ", "_", "_", "f", "u", "t", "u", "r", "e", "_", "_", " ", "i", "m", "p", "o", "r", "t", " ", "x", "\n">>,
      <<"i", "m", "p", "o", "r", "t", " ", "o", "s", "\n">>,
      <<SOH, "\n">> }

\* The pieces new is made of: those of old, then a CRLF line, a form feed, a
\* blank line, a comment, a docstring on one line and a docstring on two.
GuardLinePalette ==
    GuardOldPalette \cup
    { <<"\t", "a", "\r", "\n">>,
      <<"b", "\f", "c", "\n">>,
      <<"\n">>,
      <<"#", " ", "c", "\n">>,
      <<"'", "'", "'", "d", "'", "'", "'", "\n">>,
      <<"\"", "\"", "\"", "\n", "d", "\"", "\"", "\"", "\n">>,
      <<BOM>> \o FromFutureImport \o <<" ", "x", "\n">> }

GuardOldTexts == TextsOf(GuardOldPalette, MaxGuardOldLines)

GuardTexts == TextsOf(GuardLinePalette, MaxGuardLines)

GuardRelpaths ==
    { <<"d", "o", "c", "s", "/", "R", "e", "a", "d", "M", "e", ".", "m", "d">>,
      <<"a", ".", "p", "y">> }

GuardInstructions ==
    { <<"f", "i", "x", " ", "i", "t">>,
      <<"R", "e", "w", "r", "i", "t", "e">>,
      <<"C", "l", "e", "a", "n", " ", "u", "p">> }

InitGuards ==
    /\ old \in GuardOldTexts
    /\ diff = <<>>
    /\ ap = ApplyIdle
    /\ normalized = NormIdle
    /\ apn = ApplyIdle
    /\ ed = EditIdle
    /\ rp = PathIdle
    /\ ah = HandlerIdle
    /\ conn = ConnIdle
    /\ lj = JsonIdle
    /\ fi = FutureIdle
    /\ srv = ServerIdle
    /\ \E relpath \in GuardRelpaths, instruction \in GuardInstructions,
          new \in GuardTexts :
          guard = [pc |-> "call", relpath |-> relpath, instruction |-> instruction,
                   new |-> new, ok |-> FALSE, why |-> ""]

\* enforce_guards(relpath=..., instruction=..., old=old, new=...), the whole call
EnforceGuards ==
    /\ guard.pc = "call"
    /\ \E r \in {enforce_guards(guard.relpath, guard.instruction, old, guard.new)} :
           guard' = [guard EXCEPT !.pc = "returned", !.ok = r.ok, !.why = r.why]
    /\ UNCHANGED <<old, diff, ap, normalized, apn, ed, rp, ah, conn, lj, fi, srv>>

NextGuards == EnforceGuards

SpecGuards == InitGuards /\ [][NextGuards]_vars

(***************************************************************************)
(* edit_plan: one action for each stretch of it between two model calls.   *)
(***************************************************************************)
\* json.dumps of a string, without the quotes around it
JsonEscape(t) ==
    Join([k \in 1..Len(t) |->
            CASE t[k] = "\"" -> <<"\\", "\"">>
              [] t[k] = "\\" -> <<"\\", "\\">>
              [] t[k] = "\n" -> <<"\\", "n">>
              [] t[k] = "\r" -> <<"\\", "r">>
              [] t[k] = "\t" -> <<"\\", "t">>
              [] t[k] = "\f" -> <<"\\", "f">>
              [] t[k] = SOH -> <<"\\", "u", "0", "0", "0", "1">>
              [] t[k] = BOM -> <<"\\", "u", "f", "e", "f", "f">>
              [] t[k] = ZWSP -> <<"\\", "u", "2", "0", "0", "b">>
              [] OTHER -> <<t[k]>>])

\* The answer {"diff": d}; d holds no backslash, so loads_obj leaves it as is
DiffAnswer(d) ==
    Answer(<<"{", "\"", "d", "i", "f", "f", "\"", ":", " ", "\"">> \o JsonEscape(d) \o <<"\"", "}">>,
           TRUE, TRUE, d, FALSE, <<>>)

\* The answer {"content": c}; c holds no backslash
ContentAnswer(c) ==
    Answer(<<"{", "\"", "c", "o", "n", "t", "e", "n", "t", "\"", ":", " ", "\"">> \o JsonEscape(c) \o <<"\"", "}">>,
           TRUE, FALSE, <<>>, TRUE, c)

\* An answer that is no JSON, on which loads_obj raises; _call_model strips it
TextAnswer(t) == Answer(Strip(t), FALSE, FALSE, <<>>, FALSE, <<>>)

FUTURE_LINE == <<"f", "r", "o", "m", " ", "_", "_", "f", "u", "t", "u", "r", "e", "_", "_", " ", "i", "m", "p", "o", "r", "t", " ", "x", "\n">>

EditOldTexts ==
    { <<>>,
      <<"a", "\n">>,
      <<"a", "\n", "b">>,
      FUTURE_LINE \o <<"a", "\n">> }

EditPaths ==
    { <<"a", ".", "p", "y">>,
      <<"R", "E", "A", "D", "M", "E", ".", "m", "d">> }

EditInstructions ==
    { <<"f", "i", "x", " ", "i", "t">>,
      <<"r", "e", "w", "r", "i", "t", "e">> }

EditAnswers ==
    { DiffAnswer(<<"@", "@", " ", "-", "1", " ", "+", "1", " ", "@", "@", "\n", "-", "a", "\n", "+", "b", "\n">>),
      DiffAnswer(<<"@", "@", " ", "-", "0", ",", "0", " ", "+", "1", " ", "@", "@", "\n", "+", "b", "\n">>),
      DiffAnswer(<<"@", "@", " ", "-", "2", " ", "+", "2", " ", "@", "@", "\n", "+", "c", "\n">>),
      DiffAnswer(<<>>),
      ContentAnswer(<<"a", "\n">>),
      ContentAnswer(<<"a", "\n", "c">>),
      ContentAnswer(<<"b", "\n">> \o FUTURE_LINE),
      TextAnswer(<<"@", "@", " ", "-", "1", " ", "+", "1", " ", "@", "@", "\n", " ", "a", "\n", "+", "b", "\n">>),
      TextAnswer(<<"a", "\n", "b", "\n">>) }

\* The syntax probes made so far agree: no text both compiles and does not.
Functional(probed) == \A x \in probed, y \in probed : x[1] = y[1] => x[2] = y[2]

\* coder.py 553-557: the probe compile() makes for a path that ends in .py
Probe(path, content, compiles) ==
    IF EndsWith(path, DOT_PY) THEN {<<content, compiles>>} ELSE {}

InitEdit ==
    /\ old \in EditOldTexts
    /\ diff = <<>>
    /\ ap = ApplyIdle
    /\ normalized = NormIdle
    /\ apn = ApplyIdle
    /\ guard = GuardIdle
    /\ rp = PathIdle
    /\ ah = HandlerIdle
    /\ conn = ConnIdle
    /\ lj = JsonIdle
    /\ fi = FutureIdle
    /\ srv = ServerIdle
    /\ \E exists \in BOOLEAN, path \in EditPaths, instruction \in EditInstructions :
          /\ ~exists => old = <<>>
          /\ ed = [EditIdle EXCEPT !.pc = "start", !.exists = exists, !.path = path,
                                   !.instruction = instruction]

editFrame == <<old, diff, ap, normalized, apn, guard, rp, ah, conn, lj, fi, srv>>

\* A return of edit_plan from the state e of the call
Return(e, result) == [e EXCEPT !.pc = "done", !.result = result]

\* The text a prompt carries after "REPAIR: " (coder.py 336-337, 353-354): its
\* head up to the colon and the detail after it; NoHint is repair=None.
Hint(head, detail) == [head |-> head, detail |-> detail]

NoHint == Hint("", "")

\* "rewrite too violent" in d, of the details finalize gives
IsViolentDetail(d) == d = "guard: rewrite too violent"

\* _repair_hint_for_detail without the line of the table for a violent rewrite
RepairHintWithoutTable(d) == Hint("guard_blocked", d)

\* coder.py 359-368
_repair_hint_for_detail(d) ==
    IF IsViolentDetail(d) THEN Hint("rewrite_too_violent", "")
    ELSE Hint("guard_blocked", d)

\* coder.py 302-311: one more call of the model has returned; kind is "diff"
\* for a prompt of _build_prompts and "fulltext" for one of
\* _build_fulltext_prompts, repair its hint and ans the answer
Called(e, kind, repair, ans) ==
    [e EXCEPT !.calls = @ + 1,
              !.model_calls = Append(@, [kind |-> kind, repair |-> repair, answer |-> ans])]

\* coder.py 732, 737, 797, 833: _fulltext_fallback is entered, up to its call
\* of the model
GoFallback(e, reason) == [e EXCEPT !.pc = "fallback", !.reason = reason]

\* edit_plan_start asking the model before it looks for the file
EditPlanStartAsksFirst(e) == [e EXCEPT !.pc = "round1"]

\* coder.py 706-713: up to the first call of the model
edit_plan_start(e) ==
    IF ~e.exists
    THEN Return(e, Result(FALSE, "file_not_found", "", FALSE, <<>>, <<>>, <<>>))
    ELSE [e EXCEPT !.pc = "round1"]

\* coder.py 741-746, 800-805: the diff d of a round is applied and finalized;
\* failed is the state to go to when d does not apply
RoundApplied(e, o, d, compiles, repair_pc, failed) ==
    With(apply_unified_diff(o, d), LAMBDA r :
    With(_finalize_ok(e.path, e.instruction, o, r.result, d, compiles), LAMBDA out :
    With(Probe(e.path, _autofix_future_import(o, r.result), compiles), LAMBDA probe :
        IF r.pc = "error" THEN failed
        ELSE IF out.ok THEN [Return(e, out) EXCEPT !.probed = @ \union probe]
        ELSE [e EXCEPT !.pc = repair_pc, !.out = out, !.probed = @ \union probe])))

\* edit_plan_round1 with a missing diff answered by a second diff round
EditPlanRound1RetriesMissing(e, o, ans, compiles) ==
    With(RoundDiffOf(ans), LAMBDA diff1 :
        IF ~Contains(diff1, AT_AT) THEN [e EXCEPT !.pc = "round2"]
        ELSE IF o = <<>> /\ ~_validate_diff_for_empty_old(diff1).ok
        THEN GoFallback(e, "bad_diff_empty_old")
        ELSE RoundApplied(e, o, diff1, compiles, "repair1",
                          [e EXCEPT !.pc = "round2",
                                    !.apply_err = apply_unified_diff(o, diff1).err]))

\* coder.py 714-775: the first answer
edit_plan_round1(e, o, ans, compiles) ==
    With(RoundDiffOf(ans), LAMBDA diff1 :
        IF ~Contains(diff1, AT_AT) THEN GoFallback(e, "missing_diff")
        ELSE IF o = <<>> /\ ~_validate_diff_for_empty_old(diff1).ok
        THEN GoFallback(e, "bad_diff_empty_old")
        ELSE RoundApplied(e, o, diff1, compiles, "repair1",
                          [e EXCEPT !.pc = "round2",
                                    !.apply_err = apply_unified_diff(o, diff1).err]))

\* edit_plan_round2 giving up without the fallback when the second diff fails
EditPlanRound2GivesUp(e, o, ans, compiles) ==
    With(RoundDiffOf(ans), LAMBDA diff2 :
    With(Return(e, Result(FALSE, "patch_apply_failed", e.apply_err, FALSE, <<>>, <<>>, <<>>)), LAMBDA fail :
        IF ~Contains(diff2, AT_AT) THEN fail
        ELSE IF o = <<>> /\ ~_validate_diff_for_empty_old(diff2).ok
        THEN GoFallback(e, "bad_diff_empty_old")
        ELSE RoundApplied(e, o, diff2, compiles, "repair2", fail)))

\* coder.py 776-833: the second answer
edit_plan_round2(e, o, ans, compiles) ==
    With(RoundDiffOf(ans), LAMBDA diff2 :
        IF ~Contains(diff2, AT_AT) THEN GoFallback(e, "patch_apply_failed twice")
        ELSE IF o = <<>> /\ ~_validate_diff_for_empty_old(diff2).ok
        THEN GoFallback(e, "bad_diff_empty_old")
        ELSE RoundApplied(e, o, diff2, compiles, "repair2",
                          GoFallback(e, "patch_apply_failed twice")))

\* edit_plan_guard_repair returning the first rejection whenever it spoke of a
\* rewrite too violent, whatever the retry gave
GuardRepairSurfacesViolent(e, o, ans, compiles) ==
    With(RepairDiffOf(ans), LAMBDA diffg :
    With(apply_unified_diff(o, diffg), LAMBDA r :
    With(Contains(diffg, AT_AT) /\ r.pc = "done", LAMBDA applied :
    With(_finalize_ok(e.path, e.instruction, o, r.result, diffg, compiles), LAMBDA outg :
    With(IF applied
         THEN Probe(e.path, _autofix_future_import(o, r.result), compiles)
         ELSE {}, LAMBDA probe :
        [Return(e, IF applied /\ outg.ok /\ ~IsViolentDetail(e.out.detail)
                   THEN outg ELSE e.out)
            EXCEPT !.probed = @ \union probe, !.applied_g = applied,
                   !.outg = IF applied THEN outg ELSE NoResult])))))

\* edit_plan_guard_repair going on to the fallback when the retry fails
GuardRepairFallsBack(e, o, ans, compiles) ==
    With(RepairDiffOf(ans), LAMBDA diffg :
    With(apply_unified_diff(o, diffg), LAMBDA r :
    With(Contains(diffg, AT_AT) /\ r.pc = "done", LAMBDA applied :
    With(_finalize_ok(e.path, e.instruction, o, r.result, diffg, compiles), LAMBDA outg :
    With(IF applied
         THEN Probe(e.path, _autofix_future_import(o, r.result), compiles)
         ELSE {}, LAMBDA probe :
        [(IF applied /\ outg.ok THEN Return(e, outg) ELSE GoFallback(e, "guard_blocked"))
            EXCEPT !.probed = @ \union probe, !.applied_g = applied,
                   !.outg = IF applied THEN outg ELSE NoResult])))))

\* coder.py 749-769, 808-828: the answer to the guard-repair prompt
edit_plan_guard_repair(e, o, ans, compiles) ==
    With(RepairDiffOf(ans), LAMBDA diffg :
    With(apply_unified_diff(o, diffg), LAMBDA r :
    With(Contains(diffg, AT_AT) /\ r.pc = "done", LAMBDA applied :
    With(_finalize_ok(e.path, e.instruction, o, r.result, diffg, compiles), LAMBDA outg :
    With(IF applied
         THEN Probe(e.path, _autofix_future_import(o, r.result), compiles)
         ELSE {}, LAMBDA probe :
        [Return(e, IF applied /\ outg.ok THEN outg ELSE e.out)
            EXCEPT !.probed = @ \union probe, !.applied_g = applied,
                   !.outg = IF applied THEN outg ELSE NoResult])))))

\* edit_plan_fallback with a rejection of the fallback reported as an error of
\* the driver's own
FallbackRejectionWrapped(e, o, ans, compiles1, compiles2) ==
    With(FallbackNew(o, ans), LAMBDA new :
    With(Probe(e.path, new, compiles1), LAMBDA probe1 :
    With(IF _py_syntax_ok(e.path, compiles1) /\ _future_import_guard(o, new).ok
         THEN Probe(e.path, _autofix_future_import(o, new), compiles2)
         ELSE {}, LAMBDA probe2 :
    With(_fulltext_fallback(e.path, e.instruction, o, ans, compiles1, compiles2), LAMBDA out :
        [Return(e, IF out.ok THEN out
                   ELSE Result(FALSE, "fallback_failed", out.detail, FALSE, <<>>, <<>>, <<>>))
            EXCEPT !.probed = @ \union probe1 \union probe2]))))

\* coder.py 651-698: the answer to the full-text prompt
edit_plan_fallback(e, o, ans, compiles1, compiles2) ==
    With(FallbackNew(o, ans), LAMBDA new :
    With(Probe(e.path, new, compiles1), LAMBDA probe1 :
    With(IF _py_syntax_ok(e.path, compiles1) /\ _future_import_guard(o, new).ok
         THEN Probe(e.path, _autofix_future_import(o, new), compiles2)
         ELSE {}, LAMBDA probe2 :
        [Return(e, _fulltext_fallback(e.path, e.instruction, o, ans,
                                      compiles1, compiles2))
            EXCEPT !.probed = @ \union probe1 \union probe2])))

EditStart ==
    /\ ed.pc = "start"
    /\ ed' = edit_plan_start(ed)
    /\ UNCHANGED editFrame

Round1 ==
    /\ ed.pc = "round1"
    /\ \E ans \in EditAnswers, compiles \in BOOLEAN :
          ed' = Called(edit_plan_round1(ed, old, ans, compiles), "diff", NoHint, ans)
    /\ Functional(ed'.probed)
    /\ UNCHANGED editFrame

Round2 ==
    /\ ed.pc = "round2"
    /\ \E ans \in EditAnswers, compiles \in BOOLEAN :
          ed' = Called(edit_plan_round2(ed, old, ans, compiles), "diff",
                       Hint("patch_apply_failed", ed.apply_err), ans)
    /\ Functional(ed'.probed)
    /\ UNCHANGED editFrame

GuardRepair ==
    /\ ed.pc \in {"repair1", "repair2"}
    /\ \E ans \in EditAnswers, compiles \in BOOLEAN :
          ed' = Called(edit_plan_guard_repair(ed, old, ans, compiles), "diff",
                       _repair_hint_for_detail(ed.out.detail), ans)
    /\ Functional(ed'.probed)
    /\ UNCHANGED editFrame

FulltextFallback ==
    /\ ed.pc = "fallback"
    /\ \E ans \in EditAnswers, compiles1 \in BOOLEAN, compiles2 \in BOOLEAN :
          ed' = Called(edit_plan_fallback(ed, old, ans, compiles1, compiles2),
                       "fulltext", Hint(ed.reason, ""), ans)
    /\ Functional(ed'.probed)
    /\ UNCHANGED editFrame

NextEdit == EditStart \/ Round1 \/ Round2 \/ GuardRepair \/ FulltextFallback

SpecEdit == InitEdit /\ [][NextEdit]_vars

\* edit_plan is running: called and not yet returned.
Running == ed.pc \notin {"idle", "done"}

\* NextEdit is enabled: the guard of each action with its choice of an answer
\* and of the outcomes of the syntax probes.
CanStep ==
    \/ ed.pc = "start"
    \/ /\ ed.pc = "round1"
       /\ \E ans \in EditAnswers, compiles \in BOOLEAN :
             Functional(edit_plan_round1(ed, old, ans, compiles).probed)
    \/ /\ ed.pc = "round2"
       /\ \E ans \in EditAnswers, compiles \in BOOLEAN :
             Functional(edit_plan_round2(ed, old, ans, compiles).probed)
    \/ /\ ed.pc \in {"repair1", "repair2"}
       /\ \E ans \in EditAnswers, compiles \in BOOLEAN :
             Functional(edit_plan_guard_repair(ed, old, ans, compiles).probed)
    \/ /\ ed.pc = "fallback"
       /\ \E ans \in EditAnswers, compiles1 \in BOOLEAN, compiles2 \in BOOLEAN :
             Functional(edit_plan_fallback(ed, old, ans, compiles1, compiles2).probed)

\* edit_plan runs on: it is straight-line code between two calls of the
\* model, and every call of the model is taken to return (coder.py 302-311).
\* Every step of NextEdit changes ed.pc and none comes back to a place left,
\* so that WF_vars(NextEdit) says: the call does not stay for ever at a place
\* where a step is enabled.
SpecEditFair == SpecEdit /\ []<>~(Running /\ CanStep)

(***************************************************************************)
(* The files the handlers work on. A path is the sequence of its names     *)
(* from "/" on; names, link targets and contents are sequences of          *)
(* characters. The tree: /w/r is the repository, /w/rl a link to it, /w/o  *)
(* a directory beside it; in the repository lo links to ../o, lf to f.py,  *)
(* up to .., lp to itself.                                                 *)
(***************************************************************************)
DOTDOT == <<".", ".">>

\* The names of a path text: pathlib drops "" and "." and keeps "..".
PathParts(s) == SelectSeq(SplitOn(s, "/"), LAMBDA n : n # <<>> /\ n # <<".">>)

\* The path text starts at "/".
IsAbsolute(s) == s # <<>> /\ s[1] = "/"

\* posixpath.dirname of a resolved path; "/" is its own parent.
Parent(path) == IF path = <<>> THEN <<>> ELSE SubSeq(path, 1, Len(path) - 1)

\* The directories of the tree.
Dirs == { <<>>, <<<<"w">>>>, <<<<"w">>, <<"r">>>>, <<<<"w">>, <<"o">>>> }

\* The symbolic links of the tree that no handler touches, with their targets.
TreeLinks ==
    (<<<<"w">>, <<"r", "l">>>> :> <<"r">>) @@ (<<<<"w">>, <<"r">>, <<"l", "o">>>> :> <<".", ".", "/", "o">>) @@ (<<<<"w">>, <<"r">>, <<"l", "f">>>> :> <<"f", ".", "p", "y">>)
        @@ (<<<<"w">>, <<"r">>, <<"u", "p">>>> :> <<".", ".">>) @@ (<<<<"w">>, <<"r">>, <<"l", "p">>>> :> <<"l", "p">>)

RECURSIVE _joinrealpath(_, _, _, _)
\* posixpath._joinrealpath (behind Path.resolve(), coder.py 46): the names of
\* rest joined to the resolved path; ok is FALSE on a loop of links. active
\* holds the links being resolved (seen[newpath] = None).
_joinrealpath(path, rest, links, active) ==
    IF rest = <<>> THEN [path |-> path, ok |-> TRUE]
    ELSE IF Head(rest) = DOTDOT
    THEN _joinrealpath(Parent(path), Tail(rest), links, active)
    ELSE With(Append(path, Head(rest)), LAMBDA newpath :
        IF newpath \notin DOMAIN links
        THEN _joinrealpath(newpath, Tail(rest), links, active)
        ELSE IF newpath \in active
        THEN [path |-> newpath \o Tail(rest), ok |-> FALSE]
        ELSE With(_joinrealpath(IF IsAbsolute(links[newpath]) THEN <<>> ELSE path,
                                PathParts(links[newpath]), links,
                                active \cup {newpath}), LAMBDA r :
            IF ~r.ok THEN [path |-> r.path \o Tail(rest), ok |-> FALSE]
            ELSE _joinrealpath(r.path, Tail(rest), links, active)))

RECURSIVE NormPathFrom(_, _)
\* posixpath.normpath of an absolute path: ".." drops the name before it.
NormPathFrom(acc, rest) ==
    IF rest = <<>> THEN acc
    ELSE IF Head(rest) = DOTDOT THEN NormPathFrom(Parent(acc), Tail(rest))
    ELSE NormPathFrom(Append(acc, Head(rest)), Tail(rest))

\* os.path.realpath of an absolute path, not strict: on a loop of links the
\* path resolved so far joined with the rest, normalized by abspath.
realpath(path, links) ==
    With(_joinrealpath(<<>>, path, links, {}), LAMBDA r :
        IF r.ok THEN r.path ELSE NormPathFrom(<<>>, r.path))

\* Path.resolve() of an absolute path: the realpath; ok is FALSE where the
\* stat() of it meets a loop of links and RuntimeError("Symlink loop from
\* ...") is raised.
resolve(path, links) ==
    With(realpath(path, links), LAMBDA s :
        [path |-> s, ok |-> _joinrealpath(<<>>, s, links, {}).ok])

\* root / rel: an absolute rel replaces root.
JoinPath(root, rel) == IF IsAbsolute(rel) THEN PathParts(rel) ELSE root \o PathParts(rel)

\* p.relative_to(base) does not raise: base is p or above it, name by name.
IsRelativeTo(p, base) == Len(base) <= Len(p) /\ SubSeq(p, 1, Len(base)) = base

\* coder.py 43: not rel or rel.startswith(("/", "~"))
InvalidRel(rel) == rel = <<>> \/ rel[1] \in {"/", "~"}

\* coder.py 42-50: [err, path]; err is "" on return, else what is raised
_resolve_repo_path(root, rel, links) ==
    IF InvalidRel(rel) THEN [err |-> "invalid_path", path |-> <<>>]
    ELSE With(resolve(JoinPath(root, rel), links), LAMBDA p :
         With(resolve(root, links), LAMBDA base :
            IF ~p.ok \/ ~base.ok THEN [err |-> "RuntimeError", path |-> <<>>]
            ELSE IF ~IsRelativeTo(p.path, base.path)
            THEN [err |-> "path_escape", path |-> <<>>]
            ELSE [err |-> "", path |-> p.path]))

(***************************************************************************)
(* _resolve_repo_path as a state machine: one call on a root and a rel     *)
(* made of at most MaxRelParts names joined with "/".                      *)
(***************************************************************************)
MaxRelParts == 3   \* a rel is made of at most this many names

PathRoots == { <<<<"w">>, <<"r">>>>, <<<<"w">>, <<"r", "l">>>> }

RelNames ==
    { <<"f", ".", "p", "y">>, DOTDOT, <<"l", "o">>, <<".">>, <<>>, <<"~">>, <<"l", "p">>, <<"s">>, <<"r">>, <<"l", "f">>, <<"u", "p">>, <<"n", "x">> }

RelTexts == { JoinWith(parts, <<"/">>) : parts \in UNION { [1..n -> RelNames] : n \in 0..MaxRelParts } }

InitPath ==
    /\ old = <<>>
    /\ diff = <<>>
    /\ ap = ApplyIdle
    /\ normalized = NormIdle
    /\ apn = ApplyIdle
    /\ guard = GuardIdle
    /\ ed = EditIdle
    /\ ah = HandlerIdle
    /\ conn = ConnIdle
    /\ lj = JsonIdle
    /\ fi = FutureIdle
    /\ srv = ServerIdle
    /\ \E root \in PathRoots, rel \in RelTexts :
          rp = [PathIdle EXCEPT !.pc = "call", !.root = root, !.rel = rel]

\* _resolve_repo_path(root, rel), the whole call
ResolveRepoPath ==
    /\ rp.pc = "call"
    /\ \E r \in {_resolve_repo_path(rp.root, rp.rel, TreeLinks)} :
           rp' = [rp EXCEPT !.pc = IF r.err = "" THEN "returned" ELSE "raised",
                            !.err = r.err, !.path = r.path]
    /\ UNCHANGED <<old, diff, ap, normalized, apn, guard, ed, ah, conn, lj, fi, srv>>

NextPath == ResolveRepoPath

SpecPath == InitPath /\ [][NextPath]_vars

(***************************************************************************)
(* The handlers apply_edit and apply_full_replace on the files: the checks *)
(* up to the guards, then the backup, the atomic write and git add, a step *)
(* per call that touches the files.                                        *)
(***************************************************************************)
XFF == "\\xff"       \* a byte that is no UTF-8
UFFFD == "\\ufffd"   \* U+FFFD, what errors="replace" decodes it to

\* bytes.decode("utf-8", errors="replace")
Decode(bytes) == [k \in 1..Len(bytes) |-> IF bytes[k] = XFF THEN UFFFD ELSE bytes[k]]

\* Path.read_text(encoding="utf-8", errors="replace") of the bytes of a file:
\* decoded, and with universal newlines "\r\n" and "\r" read as "\n".
read_text(bytes) == CrToLf(Decode(bytes))

\* The last name of a path.
PathLast(path) == path[Len(path)]

\* coder.py 579: path.with_suffix(path.suffix + ".shellgeist.bak")
BackupPath(path) == Append(Parent(path), PathLast(path) \o <<".", "s", "h", "e", "l", "l", "g", "e", "i", "s", "t", ".", "b", "a", "k">>)

\* coder.py 565: the file mkstemp makes beside path; "*" is its random part.
TmpPath(path) == Append(Parent(path), PathLast(path) \o <<".", "*", ".", "t", "m", "p">>)

\* Where the file system ends up when it walks the path; ok is FALSE on a
\* loop of links.
Walk(path, links) == _joinrealpath(<<>>, path, links, {})

\* Path.exists()
Exists(h, path) ==
    With(Walk(path, h.links), LAMBDA w :
        w.ok /\ (w.path \in Dirs \/ w.path \in DOMAIN h.disk))

\* The handler returns result.
Returns(h, result) == [h EXCEPT !.pc = "returned", !.result = result]

\* The handler raises: the exception leaves it.
Raises(h, exception) ==
    [h EXCEPT !.pc = "raised", !.result = [NoReturn EXCEPT !.error = exception]]

\* {"ok": False, "error": error, "detail": detail}
Failure(error, detail) == [NoReturn EXCEPT !.error = error, !.detail = detail]

\* {"ok": False, "error": "guard_blocked", "detail": detail, "patch": patch}
BlockedWithPatch(detail, patch) ==
    [NoReturn EXCEPT !.error = "guard_blocked", !.detail = detail, !.patch = patch]

\* The checks have passed: the handler goes on to write new.
GoWrite(h, file, o, new, patch) ==
    [h EXCEPT !.pc = IF h.backup THEN "backup" ELSE "mkstemp",
              !.file = file, !.old = o, !.new = new, !.patch = patch]

\* apply_edit_guards that goes on to write whatever enforce_guards says.
ApplyEditGuardsUnenforced(h0, file, o, new, compiles) ==
    With([h0 EXCEPT !.probed = Probe(h0.path, new, compiles)], LAMBDA h :
    With(_future_import_guard(o, new), LAMBDA fut :
        IF ~_py_syntax_ok(h.path, compiles)
        THEN Returns(h, Failure("guard_blocked",
                 IF ~fut.ok THEN fut.why ELSE "syntax_error_after_edit"))
        ELSE IF ~fut.ok THEN Returns(h, Failure("guard_blocked", fut.why))
        ELSE GoWrite(h, file, o, new, <<>>)))

\* coder.py 924-944: the syntax probe, the guards and the future-import guard
\* of apply_edit on the new text
apply_edit_guards(h0, file, o, new, compiles) ==
    With([h0 EXCEPT !.probed = Probe(h0.path, new, compiles)], LAMBDA h :
    With(_future_import_guard(o, new), LAMBDA fut :
        IF ~_py_syntax_ok(h.path, compiles)
        THEN Returns(h, Failure("guard_blocked",
                 IF ~fut.ok THEN fut.why ELSE "syntax_error_after_edit"))
        ELSE With(enforce_guards(h.path,
                      IF h.instruction = <<>> THEN <<"a", "p", "p", "l", "y">> ELSE h.instruction,
                      o, new), LAMBDA guarded :
            IF ~guarded.ok
            THEN Returns(h, Failure("guard_blocked", GuardDetail(guarded.why)))
            ELSE IF ~fut.ok THEN Returns(h, Failure("guard_blocked", fut.why))
            ELSE GoWrite(h, file, o, new, <<>>))))

\* coder.py 904-922: apply_edit from the read of the file to the new text
apply_edit_patch(h, file, compiles) ==
    With(read_text(h.disk[Walk(file, h.links).path]), LAMBDA o :
    With(_normalize_unified_diff(_maybe_unescape_llm_string(h.payload.text)), LAMBDA patch :
    With(IF o = <<>> THEN _validate_diff_for_empty_old(patch)
         ELSE [ok |-> TRUE, why |-> ""], LAMBDA valid :
        IF ~valid.ok THEN Returns(h, Failure("bad_patch_empty_old", valid.why))
        ELSE With(apply_unified_diff(o, patch), LAMBDA applied :
            IF applied.pc = "error"
            THEN Returns(h, Failure("patch_apply_failed", applied.err))
            ELSE apply_edit_guards(h, file, o,
                     _autofix_future_import(o, applied.result), compiles)))))

\* coder.py 898-902 and on: apply_edit up to the decision to write
apply_edit_checks(h, compiles) ==
    With(_resolve_repo_path(h.root, h.path, h.links), LAMBDA resolved :
        IF resolved.err # "" THEN Raises(h, resolved.err)
        ELSE IF ~Exists(h, resolved.path) THEN Returns(h, Failure("file_not_found", ""))
        ELSE IF ~h.payload.some \/ ~Contains(h.payload.text, <<"@", "@">>)
        THEN Returns(h, Failure("invalid_patch", ""))
        ELSE IF Walk(resolved.path, h.links).path \in Dirs
        THEN Raises(h, "IsADirectoryError")
        ELSE apply_edit_patch(h, resolved.path, compiles))

\* coder.py 855-869: apply_full_replace from the read of the file to the
\* decision to write
apply_full_replace_guards(h, file, compiles) ==
    With(read_text(h.disk[Walk(file, h.links).path]), LAMBDA o :
    With(_maybe_unescape_llm_string(h.payload.text), LAMBDA new :
    With(_make_patch_from_fulltext(h.path, o, new), LAMBDA patch :
    With(_future_import_guard(o, new), LAMBDA fut :
        IF ~fut.ok THEN Returns(h, BlockedWithPatch(fut.why, patch))
        ELSE With([h EXCEPT !.probed = Probe(h.path, new, compiles)], LAMBDA hp :
            IF ~_py_syntax_ok(h.path, compiles)
            THEN Returns(hp, BlockedWithPatch("syntax_error_after_edit", patch))
            ELSE With(enforce_guards(h.path, h.instruction, o, new), LAMBDA guarded :
                IF ~guarded.ok
                THEN Returns(hp, BlockedWithPatch(GuardDetail(guarded.why), patch))
                ELSE GoWrite(hp, file, o, new, patch)))))))

\* coder.py 849-853 and on: apply_full_replace up to the decision to write
apply_full_replace_checks(h, compiles) ==
    With(_resolve_repo_path(h.root, h.path, h.links), LAMBDA resolved :
        IF resolved.err # "" THEN Raises(h, resolved.err)
        ELSE IF ~Exists(h, resolved.path) THEN Returns(h, Failure("file_not_found", ""))
        ELSE IF ~h.payload.some THEN Returns(h, Failure("invalid_content", ""))
        ELSE IF Walk(resolved.path, h.links).path \in Dirs
        THEN Raises(h, "IsADirectoryError")
        ELSE apply_full_replace_guards(h, resolved.path, compiles))

\* The files with the bytes written at the place the path leads to.
WriteAt(h, path, bytes) ==
    With(Walk(path, h.links).path, LAMBDA place :
        [p \in DOMAIN h.disk \cup {place} |-> IF p = place THEN bytes ELSE h.disk[p]])

\* The files without the file at path.
Unlink(h, path) == [p \in DOMAIN h.disk \ {path} |-> h.disk[p]]

\* coder.py 578-583, the backup made: bak.write_text(path.read_text(...))
backup_written(h) ==
    [h EXCEPT !.pc = "mkstemp", !.backed = "written",
              !.disk = WriteAt(h, BackupPath(h.file),
                               read_text(h.disk[Walk(h.file, h.links).path]))]

\* coder.py 582-583, the backup failed and the failure ignored: the read
\* failed, or the write after bak was opened and so emptied.
backup_failed(h, opened) ==
    [h EXCEPT !.pc = "mkstemp", !.backed = "failed",
              !.disk = IF opened THEN WriteAt(h, BackupPath(h.file), <<>>) ELSE h.disk]

\* coder.py 564-565: mkstemp has made the empty temporary file.
mkstemp_done(h) ==
    [h EXCEPT !.pc = "write", !.tmp = Walk(TmpPath(h.file), h.links).path,
              !.disk = WriteAt(h, TmpPath(h.file), <<>>)]

\* The content written to the file itself instead of the temporary file.
WrittenInPlace(h, n) ==
    [h EXCEPT !.pc = IF n = Len(h.new) THEN "replace" ELSE "finally",
              !.raising = n < Len(h.new),
              !.disk = WriteAt(h, h.file, SubSeq(h.new, 1, n))]

\* coder.py 567-568: the content written to the temporary file, all of it, or
\* its first n characters when the write fails.
tmp_written(h, n) ==
    [h EXCEPT !.pc = IF n = Len(h.new) THEN "replace" ELSE "finally",
              !.raising = n < Len(h.new),
              !.disk = [h.disk EXCEPT ![h.tmp] = SubSeq(h.new, 1, n)]]

\* coder.py 569: os.replace(tmp, path), one step of the file system: the
\* name of path in its directory now names the temporary file; a link of
\* that name is gone.
replaced(h) ==
    With(Append(Walk(Parent(h.file), h.links).path, PathLast(h.file)), LAMBDA place :
        [h EXCEPT !.pc = "finally",
                  !.links = [p \in DOMAIN h.links \ {place} |-> h.links[p]],
                  !.disk = [p \in (DOMAIN h.disk \cup {place}) \ {h.tmp} |->
                               IF p = place THEN h.disk[h.tmp] ELSE h.disk[p]]])

\* coder.py 569: os.replace raises and leaves the files as they are.
replace_failed(h) == [h EXCEPT !.pc = "finally", !.raising = TRUE]

\* finally_done that goes on to git add whether stage was asked or not.
FinallyDoneAlwaysStages(h) ==
    With(IF h.tmp \in DOMAIN h.disk THEN Unlink(h, h.tmp) ELSE h.disk, LAMBDA disk :
        IF h.raising THEN [Raises(h, "OSError") EXCEPT !.disk = disk]
        ELSE [h EXCEPT !.pc = "git", !.disk = disk])

\* coder.py 570-575 and the return to the handler (coder.py 873-875, 948-950)
finally_done(h) ==
    With(IF h.tmp \in DOMAIN h.disk THEN Unlink(h, h.tmp) ELSE h.disk, LAMBDA disk :
        IF h.raising THEN [Raises(h, "OSError") EXCEPT !.disk = disk]
        ELSE IF h.stage THEN [h EXCEPT !.pc = "git", !.disk = disk]
        ELSE [h EXCEPT !.pc = "returned", !.disk = disk,
                       !.result = [NoReturn EXCEPT !.ok = TRUE, !.written = TRUE,
                                                   !.patch = h.patch]])

\* git add -- path has exited and its status is not read.
GitAddedWhateverRc(h, rc) ==
    [h EXCEPT !.pc = "returned",
              !.git = Append(h.git, [path |-> h.path, rc |-> rc,
                                     bytes |-> h.disk[Walk(h.file, h.links).path]]),
              !.result = [NoReturn EXCEPT !.ok = TRUE, !.written = TRUE,
                                          !.staged = TRUE, !.patch = h.patch]]

\* coder.py 876-882, 951-957: git add -- path has exited with rc
git_added(h, rc) ==
    With(Append(h.git, [path |-> h.path, rc |-> rc,
                        bytes |-> h.disk[Walk(h.file, h.links).path]]), LAMBDA git :
        IF rc # 0
        THEN [h EXCEPT !.pc = "returned", !.git = git,
                       !.result = Failure("git_add_failed", "")]
        ELSE [h EXCEPT !.pc = "returned", !.git = git,
                       !.result = [NoReturn EXCEPT !.ok = TRUE, !.written = TRUE,
                                                   !.staged = TRUE, !.patch = h.patch]])

\* A KeyboardInterrupt reaches the handler between two steps: inside the try
\* of _atomic_write_text the finally clause still runs, elsewhere the
\* exception leaves the handler at once.
interrupted(h) ==
    IF h.pc \in {"write", "replace"}
    THEN [h EXCEPT !.pc = "finally", !.raising = TRUE, !.interrupted = TRUE]
    ELSE [Raises(h, "KeyboardInterrupt") EXCEPT !.interrupted = TRUE]

\* The root the handlers are called with: the link to the repository.
HandlerRoot == <<<<"w">>, <<"r", "l">>>>

\* The file of the repository, the file beside the repository, and the place
\* the backup link leads to.
TargetFile == <<<<"w">>, <<"r">>, <<"f", ".", "p", "y">>>>
OutsideFile == <<<<"w">>, <<"o">>, <<"s">>>>
BackupLinkTarget == <<<<"w">>, <<"o">>, <<"k">>>>

HandlerPaths ==
    { <<"f", ".", "p", "y">>, <<"l", "f">>, <<"l", "o", "/", "s">>, <<"n", "x">>, <<".">>, <<"l", "p", "/", ".", ".", "/", "l", "o", "/", "s">>, <<"~">> }

\* What the file of the repository holds before the call.
HandlerOldBytes ==
    { <<>>,
      <<"a", "\n">>,
      <<"a", "\r", "\n", "b", "\n">>,
      FromFutureImport \o <<" ", "x", "\n", "a", "\n">> }

\* What stands at <file>.shellgeist.bak before the call: nothing, a file, or
\* a link that leads out of the repository.
BackupKinds == {"absent", "file", "link"}

PatchPayloads ==
    { None,
      Some(<<>>),
      Some(<<"@", "@", " ", "-", "0", ",", "0", " ", "+", "1", " ", "@", "@", "\n", "+", "b", "\n">>),
      Some(<<"@", "@", " ", "-", "0", ",", "0", " ", "+", "1", " ", "@", "@", "\n">>),
      Some(<<"@", "@", " ", "-", "1", " ", "+", "1", " ", "@", "@", "\n", "-", "a", "\n", "+", "b", "\n">>),
      Some(<<"@", "@", " ", "-", "1", " ", "+", "1", " ", "@", "@", "\n", " ", "a", "\n", "+", "c", "\n">>),
      Some(<<"@", "@", " ", "-", "1", " ", "+", "1", " ", "@", "@", "\n", "-", "x", "\n", "+", "b", "\n">>),
      Some(<<"@", "@", " ", "-", "0", ",", "0", " ", "+", "1", " ", "@", "@", "\n", "-", "-", "-", " ", "a", "\n", "+", "b", "\n">>),
      Some(<<"@", "@", " ", "-", "1", " ", "+", "1", " ", "@", "@", "\\", "n", " ", "a", "\\", "n", "+", "c", "\\", "n">>) }

TextPayloads ==
    { None,
      Some(<<"a", "\n">>),
      Some(<<"a", "\n", "b", "\n">>),
      Some(<<"b", "\n">>),
      Some(<<"a", "\\", "n", "b">>),
      Some(FromFutureImport \o <<" ", "x", "\n", "b", "\n">>),
      Some(<<"b", "\n">> \o FromFutureImport \o <<" ", "x", "\n", "a", "\n">>) }

APPLY_FULL == <<"a", "p", "p", "l", "y", "_", "f", "u", "l", "l">>

\* protocol.py 141-143: the instruction handle_request calls
\* apply_full_replace with, asked being req.get("instruction")
edit_apply_full_instruction(asked) ==
    IF ~asked.some \/ Strip(asked.text) = <<>> THEN APPLY_FULL ELSE asked.text

\* The instructions the handlers are called with: those of a direct call and,
\* for apply_full_replace, those of an edit_apply_full request without and
\* with an instruction.
EditInstructionsOf(op) ==
    IF op = "apply_edit" THEN { <<"a", "p", "p", "l", "y">>, <<>>, <<"r", "e", "w", "r", "i", "t", "e">> }
    ELSE { <<"f", "u", "l", "l", "_", "r", "e", "p", "l", "a", "c", "e">>,
           edit_apply_full_instruction(None),
           edit_apply_full_instruction(Some(<<"f", "i", "x", " ", "i", "t">>)) }

PayloadsOf(op) == IF op = "apply_edit" THEN PatchPayloads ELSE TextPayloads

\* The files before the call.
DiskOf(bytes, kind) ==
    (TargetFile :> bytes) @@ (OutsideFile :> <<"s", "\n">>)
        @@ (IF kind = "file" THEN BackupPath(TargetFile) :> <<"z", "\n">> ELSE <<>>)

\* The links before the call.
LinksOf(kind) ==
    IF kind = "link" THEN TreeLinks @@ (BackupPath(TargetFile) :> <<"/", "w", "/", "o", "/", "k">>)
    ELSE TreeLinks

InitHandler ==
    /\ old = <<>>
    /\ diff = <<>>
    /\ ap = ApplyIdle
    /\ normalized = NormIdle
    /\ apn = ApplyIdle
    /\ guard = GuardIdle
    /\ ed = EditIdle
    /\ rp = PathIdle
    /\ conn = ConnIdle
    /\ lj = JsonIdle
    /\ fi = FutureIdle
    /\ srv = ServerIdle
    /\ \E op \in {"apply_edit", "apply_full_replace"}, path \in HandlerPaths,
          bytes \in HandlerOldBytes, kind \in BackupKinds,
          stage \in BOOLEAN, backup \in BOOLEAN :
          \E payload \in PayloadsOf(op), instruction \in EditInstructionsOf(op) :
             ah = [HandlerIdle EXCEPT !.pc = "call", !.op = op, !.root = HandlerRoot,
                                      !.path = path, !.payload = payload,
                                      !.instruction = instruction, !.stage = stage,
                                      !.backup = backup, !.disk = DiskOf(bytes, kind),
                                      !.links = LinksOf(kind),
                                      !.before = [disk |-> DiskOf(bytes, kind),
                                                  links |-> LinksOf(kind)]]

handlerFrame == <<old, diff, ap, normalized, apn, guard, ed, rp, conn, lj, fi, srv>>

\* apply_edit from its call to the decision to write (coder.py 898-944)
ApplyEditChecks ==
    /\ ah.pc = "call" /\ ah.op = "apply_edit"
    /\ \E compiles \in BOOLEAN : ah' = apply_edit_checks(ah, compiles)
    /\ UNCHANGED handlerFrame

\* apply_full_replace from its call to the decision to write (coder.py 849-869)
ApplyFullReplaceChecks ==
    /\ ah.pc = "call" /\ ah.op = "apply_full_replace"
    /\ \E compiles \in BOOLEAN : ah' = apply_full_replace_checks(ah, compiles)
    /\ UNCHANGED handlerFrame

\* _backup_file(file_path), done or failed
BackupFile ==
    /\ ah.pc = "backup"
    /\ \/ Walk(BackupPath(ah.file), ah.links).ok /\ ah' = backup_written(ah)
       \/ \E opened \in BOOLEAN :
             /\ opened => Walk(BackupPath(ah.file), ah.links).ok
             /\ ah' = backup_failed(ah, opened)
    /\ UNCHANGED handlerFrame

\* tempfile.mkstemp(...), done or failed
Mkstemp ==
    /\ ah.pc = "mkstemp"
    /\ \/ ah' = mkstemp_done(ah)
       \/ ah' = Raises(ah, "OSError")
    /\ UNCHANGED handlerFrame

\* f.write(content) and the close of the file, done or failed on the way
WriteTmp ==
    /\ ah.pc = "write"
    /\ \E n \in {0, Len(ah.new) \div 2, Len(ah.new)} : ah' = tmp_written(ah, n)
    /\ UNCHANGED handlerFrame

\* os.replace(tmp, path), done or failed
Replace ==
    /\ ah.pc = "replace"
    /\ \/ ah' = replaced(ah)
       \/ ah' = replace_failed(ah)
    /\ UNCHANGED handlerFrame

\* the finally clause of _atomic_write_text
Finally ==
    /\ ah.pc = "finally"
    /\ ah' = finally_done(ah)
    /\ UNCHANGED handlerFrame

\* _git(root, ["add", "--", path]) and the return
GitAdd ==
    /\ ah.pc = "git"
    /\ \E rc \in {0, 1} : ah' = git_added(ah, rc)
    /\ UNCHANGED handlerFrame

\* The request is interrupted while the handler touches the files.
Interrupt ==
    /\ ah.pc \in {"backup", "mkstemp", "write", "replace", "finally", "git"}
    /\ ~ah.interrupted
    /\ ah' = interrupted(ah)
    /\ UNCHANGED handlerFrame

NextHandler ==
    \/ ApplyEditChecks \/ ApplyFullReplaceChecks \/ BackupFile \/ Mkstemp
    \/ WriteTmp \/ Replace \/ Finally \/ GitAdd \/ Interrupt

SpecHandler == InitHandler /\ [][NextHandler]_vars

(***************************************************************************)
(* What the claims on the handlers speak of.                               *)
(***************************************************************************)
\* The handler has read the file: the checks before the read have passed.
HasRead ==
    /\ ah.pc # "call"
    /\ ah.result.error \notin {"invalid_path", "path_escape", "RuntimeError",
                               "file_not_found", "invalid_patch", "invalid_content",
                               "IsADirectoryError"}

\* The path the resolver returned, the place of the file it names and the
\* place of its backup.
FilePath == realpath(JoinPath(ah.root, ah.path), ah.before.links)
TargetPlace == Walk(FilePath, ah.before.links).path
BackupPlace == Walk(BackupPath(FilePath), ah.before.links).path

\* The text the handler read, and what a reader of the file reads now.
PreviousBytes == ah.before.disk[TargetPlace]
ReadOld == read_text(PreviousBytes)
ReaderSees == ah.disk[TargetPlace]

\* The files, the links and the index of git are as before the call.
Untouched ==
    /\ ah.disk = ah.before.disk
    /\ ah.links = ah.before.links
    /\ ah.git = <<>>

\* The handler has returned ok false with the error and touched nothing.
RejectedWith(error) ==
    /\ ah.pc = "returned" /\ ~ah.result.ok /\ ah.result.error = error
    /\ ~ah.result.written
    /\ Untouched

\* The syntax probe of the call passed (no probe is made off .py paths).
ProbePassed == \A x \in ah.probed : x[2]

\* C16: apply_edit writes only after the normalized patch has passed, in this
\* order, the validator for an empty old, the application, the syntax probe,
\* enforce_guards and the future-import guard; when one of them fails it
\* returns ok false with bad_patch_empty_old, patch_apply_failed and
\* guard_blocked in that precedence, and the files and the index of git are
\* as before the call.
C16_WritesOnlyAfterChecks ==
    (ah.op = "apply_edit" /\ HasRead)
        => LET patch == _normalize_unified_diff(_maybe_unescape_llm_string(ah.payload.text))
               applied == apply_unified_diff(ReadOld, patch)
               new == _autofix_future_import(ReadOld, applied.result)
               guarded == enforce_guards(ah.path,
                              IF ah.instruction = <<>> THEN <<"a", "p", "p", "l", "y">>
                              ELSE ah.instruction, ReadOld, new)
               fut == _future_import_guard(ReadOld, new)
           IN  IF ReadOld = <<>> /\ ~_validate_diff_for_empty_old(patch).ok
               THEN RejectedWith("bad_patch_empty_old")
               ELSE IF applied.pc = "error" THEN RejectedWith("patch_apply_failed")
               ELSE IF ~ProbePassed
               THEN RejectedWith("guard_blocked")
                    /\ ah.result.detail \in {"syntax_error_after_edit", fut.why}
               ELSE IF ~guarded.ok
               THEN RejectedWith("guard_blocked")
                    /\ ah.result.detail = GuardDetail(guarded.why)
               ELSE IF ~fut.ok
               THEN RejectedWith("guard_blocked") /\ ah.result.detail = fut.why
               ELSE ah.new = new /\ ah.result.error \notin
                        {"bad_patch_empty_old", "patch_apply_failed", "guard_blocked"}

\* apply_edit was called with backup and stage on a patch that applies and
\* was blocked by enforce_guards: nothing is touched.
C16_Witness ==
    /\ ah.op = "apply_edit" /\ HasRead /\ ah.backup /\ ah.stage
    /\ ProbePassed /\ ah.probed # {}
    /\ RejectedWith("guard_blocked")
    /\ ah.result.detail = "guard: rewrite too violent"

\* apply_edit passed every check and wrote the new text.
C16_WitnessWritten ==
    /\ ah.op = "apply_edit" /\ ah.pc = "returned" /\ ah.result.ok
    /\ ReaderSees = ah.new /\ ReaderSees # PreviousBytes

\* The temporary file of the call.
TmpPlace == Walk(TmpPath(FilePath), ah.before.links).path

C17_WitnessRaised ==
    /\ HasRead /\ ah.pc = "raised" /\ ah.result.error = "OSError" /\ ah.tmp # <<>>
    /\ ~ah.interrupted /\ TmpPlace \notin DOMAIN ah.disk

\* C18: whenever the file holds the new contents and the backup was written,
\* the backup holds the contents the file had before the call.
C18_BackupHoldsPrevious ==
    (HasRead /\ ah.backed = "written" /\ ReaderSees = ah.new
       /\ ah.pc \in {"finally", "git", "returned", "raised"})
        => ah.disk[BackupPlace] = PreviousBytes

\* The target of every git add of the call held the new text, and only a
\* call with stage makes one.
GitAfterWrite ==
    /\ Len(ah.git) <= 1
    /\ \A k \in 1..Len(ah.git) : ah.stage /\ ah.git[k].bytes = ah.new /\ ah.git[k].path = ah.path
    /\ ah.git # <<>> => ah.pc = "returned"

\* C19: git add runs only with stage and only after the write; a result with
\* ok true has written true, and staged true exactly when stage was asked
\* and git add exited with 0.
C19_StagedIffAdded ==
    /\ GitAfterWrite
    /\ (ah.pc = "returned" /\ ah.result.ok)
         => /\ ah.result.written /\ ReaderSees = ah.new
            /\ ah.result.staged <=> (ah.stage /\ ah.git # <<>> /\ ah.git[1].rc = 0)
            /\ ah.stage => ah.git # <<>>

\* A call with stage has written, run git add with status 0 and returned
\* staged true.
C19_Witness ==
    /\ ah.pc = "returned" /\ ah.result.ok /\ ah.result.staged
    /\ ah.git # <<>> /\ ah.git[1].rc = 0 /\ ReaderSees # PreviousBytes

\* git add exited with 1 after the write: ok false, the file written.
C19_WitnessFailed ==
    /\ ah.pc = "returned" /\ ~ah.result.ok /\ ah.result.error = "git_add_failed"
    /\ ReaderSees = ah.new /\ ReaderSees # PreviousBytes

\* C20: whenever apply_full_replace returns ok true, the file holds the text
\* it was called with and the patch returned is the diff from the old text
\* to that text.
C20_FileHoldsText ==
    (ah.op = "apply_full_replace" /\ ah.pc = "returned" /\ ah.result.ok)
        => /\ ReaderSees = ah.payload.text
           /\ ah.result.patch = _make_patch_from_fulltext(ah.path, ReadOld, ah.payload.text)

\* The path with its links and ".." resolved: where the file system ends up
\* when it walks the path.
Canonical(path) == _joinrealpath(<<>>, path, TreeLinks, {}).path

\* C15: _resolve_repo_path returns a path only if the path, with its ".."
\* names and links resolved, lies under the resolved root; it raises
\* invalid_path exactly for an empty rel or one that starts with "/" or "~".
C15_ReturnedUnderRoot ==
    /\ rp.pc = "returned" => IsRelativeTo(Canonical(rp.path), Canonical(rp.root))
    /\ rp.pc \in {"returned", "raised"}
         => (rp.err = "invalid_path" <=> InvalidRel(rp.rel))

\* C8: whenever edit_plan returns ok true, the patch it reports applies to the
\* original contents of the file and yields exactly the new contents the
\* guards accepted.
C8_PatchReproducesNew ==
    (ed.pc = "done" /\ ed.result.ok)
        => LET r == apply_unified_diff(old, ed.result.patch)
           IN  r.pc = "done" /\ r.result = ed.result.new

\* The characters the content guard bans: those below 0x20 that are not tab,
\* LF or CR.
BannedChars == {"\f", SOH}

HasBannedChar(s) == {k \in DOMAIN s : s[k] \in BannedChars} # {}

\* C9: enforce_guards rejects with control_chars every new that holds a
\* character below 0x20 other than tab, LF and CR, whatever relpath,
\* instruction and old are, old = new and a rewrite keyword included.
C9_ControlCharsRejected ==
    (guard.pc = "returned" /\ HasBannedChar(guard.new))
        => (~guard.ok /\ guard.why = "control_chars")

\* A call with old = new, a rewrite keyword in the instruction and a control
\* character in new has returned.
C9_Witness ==
    /\ guard.pc = "returned"
    /\ HasBannedChar(guard.new)
    /\ old = guard.new
    /\ guard.instruction = <<"R", "e", "w", "r", "i", "t", "e">>

\* C10: enforce_guards(relpath, instruction, x, x) passes for every relpath,
\* instruction and x without a banned control character, whatever
\* future-import lines x has.
C10_NoOpPasses ==
    (guard.pc = "returned" /\ old = guard.new /\ ~HasBannedChar(guard.new))
        => (guard.ok /\ guard.why = "")

\* A call with old = new has returned, where x has a future import after an
\* import statement and no banned character.
C10_Witness ==
    /\ guard.pc = "returned"
    /\ old = guard.new
    /\ ~HasBannedChar(guard.new)
    /\ guard.new = <<"i", "m", "p", "o", "r", "t", " ", "o", "s", "\n">>
                     \o <<"f", "r", "o", "m", " ", "_", "_", "f", "u", "t", "u", "r", "e", "_", "_", " ", "i", "m", "p", "o", "r", "t", " ", "x", "\n">>

(***************************************************************************)
(* What the claims on the later guards speak of.                           *)
(***************************************************************************)
\* The keywords that allow a big rewrite.
ClaimKeywords ==
    { <<"r", "e", "w", "r", "i", "t", "e">>, <<"r", "e", "f", "a", "c", "t", "o", "r">>,
      <<"r", "e", "f", "o", "r", "m", "a", "t">>, <<"f", "o", "r", "m", "a", "t">>,
      <<"o", "v", "e", "r", "h", "a", "u", "l">>, <<"r", "e", "p", "l", "a", "c", "e">>,
      <<"f", "u", "l", "l">>, <<"c", "l", "e", "a", "n", "u", "p">>,
      <<"c", "l", "e", "a", "n", " ", "u", "p">>,
      <<"m", "o", "d", "e", "r", "n", "i", "z", "e">> }

\* The instruction holds a keyword, whatever the case of its letters.
HasKeyword(instruction) ==
    \E kw \in ClaimKeywords : \E at \in 0..(Len(instruction) - Len(kw)) :
        \A j \in 1..Len(kw) : Lower(<<instruction[at + j]>>) = <<kw[j]>>

\* The basename of relpath is readme.md, whatever the case of its letters.
IsReadme(relpath) == Lower(PathName(relpath)) = README_MD

\* The call has returned and new went past the control-character test, the
\* no-op test and the future-import guard.
PastEarlierGuards ==
    /\ guard.pc = "returned"
    /\ old # guard.new
    /\ guard.why \notin {"control_chars", "future_import_removed", "future_import_moved"}

\* The similarity of old and new is below percent / 100.
SimilarityBelow(percent) == RatioBelow(_similarity_ratio(old, guard.new), percent)

\* C11: on a README whose new went past the earlier guards, enforce_guards
\* rejects with "README rewrite blocked" exactly when the instruction holds no
\* rewrite keyword and the similarity is below 0.90.
C11_ReadmeBlockedIff ==
    (PastEarlierGuards /\ IsReadme(guard.relpath))
        => ((~guard.ok /\ guard.why = "README rewrite blocked")
              <=> (~HasKeyword(guard.instruction) /\ SimilarityBelow(90)))

\* A README went past the earlier guards and was blocked: no keyword, and a
\* new that keeps some lines of old yet is less similar than 0.90.
C11_Witness ==
    /\ PastEarlierGuards /\ IsReadme(guard.relpath)
    /\ ~guard.ok /\ guard.why = "README rewrite blocked"
    /\ ~SimilarityBelow(20)

\* A README let through at a similarity below 0.90 by a keyword written with
\* a capital.
C11_WitnessKeyword ==
    /\ PastEarlierGuards /\ IsReadme(guard.relpath)
    /\ guard.ok /\ guard.instruction = <<"R", "e", "w", "r", "i", "t", "e">>
    /\ SimilarityBelow(90)

\* A README let through without keyword: new differs from old and is as
\* similar as 0.90.
C11_WitnessSimilar ==
    /\ PastEarlierGuards /\ IsReadme(guard.relpath)
    /\ guard.ok /\ ~HasKeyword(guard.instruction) /\ ~SimilarityBelow(90)

\* C12: on a path that is no README, with new past the earlier guards,
\* enforce_guards rejects with "rewrite too violent" exactly when the
\* instruction holds no keyword and the similarity is below 0.20; with a
\* keyword it lets every new through.
C12_ViolentBlockedIff ==
    (PastEarlierGuards /\ ~IsReadme(guard.relpath))
        => /\ (~guard.ok /\ guard.why = "rewrite too violent")
                <=> (~HasKeyword(guard.instruction) /\ SimilarityBelow(20))
           /\ HasKeyword(guard.instruction) => guard.ok
           /\ guard.ok \/ guard.why = "rewrite too violent"

\* A new with no line in common with old was let through on a path that is
\* no README because the instruction holds the keyword "clean up".
C12_Witness ==
    /\ PastEarlierGuards /\ ~IsReadme(guard.relpath)
    /\ guard.instruction = <<"C", "l", "e", "a", "n", " ", "u", "p">>
    /\ SimilarityBelow(20)
    /\ guard.ok

\* C13: enforce_guards lets through every new without control character
\* that an insertion-only diff makes of the empty old, whatever the
\* instruction.
C13_InsertIntoEmptyPasses ==
    (guard.pc = "returned" /\ old = <<>> /\ guard.new # <<>>
       /\ ~HasBannedChar(guard.new))
        => guard.ok

\* q stands in s at position k.
OccursAt(s, q, k) ==
    /\ k >= 1 /\ k + Len(q) - 1 <= Len(s)
    /\ \A j \in 1..Len(q) : s[k + j - 1] = q[j]

\* A line whose first token after its leading whitespace is the future import.
HasFutureToken(ln) ==
    \E k \in 1..(Len(ln) + 1) :
        /\ OccursAt(ln, FromFutureImport, k)
        /\ \A j \in 1..(k - 1) : ln[j] \in Whitespace

\* The text has a line with the future import as first token.
HasFutureLine(text) ==
    \E i \in 1..Len(SplitLines(text)) : HasFutureToken(SplitLines(text)[i])

\* A line of whitespace only, or a line of whitespace only or a comment.
BlankLine(ln) == \A j \in 1..Len(ln) : ln[j] \in Whitespace
BlankOrComment(ln) ==
    \/ BlankLine(ln)
    \/ \E k \in 1..Len(ln) : ln[k] = "#" /\ \A j \in 1..(k - 1) : ln[j] \in Whitespace

\* The first position from p on (one past the end if none) whose line is not
\* skipped.
FirstNot(lines, p, Skipped(_)) ==
    CHOOSE i \in p..(Len(lines) + 1) :
        /\ i = Len(lines) + 1 \/ ~Skipped(lines[i])
        /\ \A j \in p..(i - 1) : Skipped(lines[j])

\* The triple quote the line opens a docstring with, <<>> if it opens none.
OpeningQuote(ln) ==
    IF \E k \in 1..Len(ln) :
          OccursAt(ln, _TRIPLE_DQ, k) /\ \A j \in 1..(k - 1) : ln[j] \in Whitespace
    THEN _TRIPLE_DQ
    ELSE IF \E k \in 1..Len(ln) :
          OccursAt(ln, _TRIPLE_SQ, k) /\ \A j \in 1..(k - 1) : ln[j] \in Whitespace
    THEN _TRIPLE_SQ
    ELSE <<>>

\* The docstring opened with q on the line closes on that line: q stands a
\* second time, after the opening one.
ClosesOnLine(ln, q) ==
    \E k, k2 \in 1..Len(ln) :
        /\ OccursAt(ln, q, k) /\ \A j \in 1..(k - 1) : ln[j] \in Whitespace
        /\ k2 >= k + 3 /\ OccursAt(ln, q, k2)

\* The position after the optional docstring that starts at p.
AfterDocstring(lines, p) ==
    IF p > Len(lines) \/ OpeningQuote(lines[p]) = <<>> THEN p
    ELSE IF ClosesOnLine(lines[p], OpeningQuote(lines[p])) THEN p + 1
    ELSE IF \E c \in (p + 1)..Len(lines) :
               \E k \in 1..Len(lines[c]) : OccursAt(lines[c], OpeningQuote(lines[p]), k)
    THEN 1 + (CHOOSE c \in (p + 1)..Len(lines) :
                /\ \E k \in 1..Len(lines[c]) : OccursAt(lines[c], OpeningQuote(lines[p]), k)
                /\ \A d \in (p + 1)..(c - 1) :
                      ~\E k \in 1..Len(lines[d]) :
                          OccursAt(lines[d], OpeningQuote(lines[p]), k))
    ELSE Len(lines) + 1

\* The position of the first statement after the allowed prelude: blank
\* lines and comments, one optional docstring, blank lines.
AfterPrelude(lines) ==
    FirstNot(lines, AfterDocstring(lines, FirstNot(lines, 1, BlankOrComment)), BlankLine)

\* The first statement of the text after the allowed prelude is a future
\* import.
FutureImportFirst(text) ==
    /\ AfterPrelude(SplitLines(text)) <= Len(SplitLines(text))
    /\ HasFutureToken(SplitLines(text)[AfterPrelude(SplitLines(text))])

\* enforce_guards has returned on a new without control character that
\* differs from old.
FutureGuardReached ==
    guard.pc = "returned" /\ old # guard.new /\ ~HasBannedChar(guard.new)

\* The path ends in .py.
IsPyPath(relpath) == EndsWith(relpath, <<".", "p", "y">>)

\* C14 as stated: the guard applies also when the path ends in .py, so a new
\* with no future import is rejected with future_import_removed there.
C14_Original ==
    (FutureGuardReached /\ (IsPyPath(guard.relpath) \/ HasFutureLine(old)))
        => /\ ~HasFutureLine(guard.new)
                => (~guard.ok /\ guard.why = "future_import_removed")
           /\ (HasFutureLine(guard.new) /\ ~FutureImportFirst(guard.new))
                => (~guard.ok /\ guard.why = "future_import_moved")

\* C14, amended: the guard applies exactly when old has a line with the future
\* import as first token, whatever the path; then a new with no such line is
\* rejected with future_import_removed and a new whose first statement after
\* the allowed prelude is not such a line with future_import_moved; when old
\* has no such line neither rejection happens.
C14_FutureGuardIffOldHasOne ==
    FutureGuardReached
        => IF ~HasFutureLine(old)
           THEN guard.why \notin {"future_import_removed", "future_import_moved"}
           ELSE IF ~HasFutureLine(guard.new)
           THEN ~guard.ok /\ guard.why = "future_import_removed"
           ELSE IF ~FutureImportFirst(guard.new)
           THEN ~guard.ok /\ guard.why = "future_import_moved"
           ELSE guard.why \notin {"future_import_removed", "future_import_moved"}

\* The guard applied on a path that is no .py file and rejected a new whose
\* future import stands after another statement.
C14_Witness ==
    /\ FutureGuardReached /\ ~IsPyPath(guard.relpath) /\ HasFutureLine(old)
    /\ HasFutureLine(guard.new)
    /\ AfterPrelude(SplitLines(guard.new)) = 1
    /\ ~guard.ok /\ guard.why = "future_import_moved"

\* The guard applied and let through a new whose future import follows a
\* docstring of two lines.
C14_WitnessDocstring ==
    /\ FutureGuardReached /\ HasFutureLine(old)
    /\ Len(SplitLines(guard.new)) >= 3
    /\ AfterPrelude(SplitLines(guard.new)) = 3
    /\ guard.why \notin {"future_import_removed", "future_import_moved"}

\* The guard applied and rejected with future_import_removed a new whose only
\* future import has U+FEFF before it.
C14_WitnessBom ==
    /\ FutureGuardReached /\ HasFutureLine(old)
    /\ Contains(guard.new, FromFutureImport)
    /\ ~guard.ok /\ guard.why = "future_import_removed"

(***************************************************************************)
(* What the claims speak of, said of the diff itself: the hunks of         *)
(* ap.lines, the kind of each line, and the cursor each line is read at.   *)
(* Line numbers j, h are 1-based; ap.i lines have been passed.             *)
(***************************************************************************)
IsHeaderLine(j) == StartsWith(ap.lines[j], <<"@", "@">>)

\* The header of the hunk line j belongs to; 0 before the first hunk.
HunkOf(j) ==
    With({h \in 1..j : IsHeaderLine(h)}, LAMBDA hs :
        IF hs = {} THEN 0 ELSE CHOOSE h \in hs : \A g \in hs : g <= h)

IsBodyLine(j) == HunkOf(j) > 0 /\ ~IsHeaderLine(j)
IsMeta(j) == IsBodyLine(j) /\ Head(ap.lines[j]) = "\\"
IsContext(j) == IsBodyLine(j) /\ Head(ap.lines[j]) = " "
IsDelete(j) == IsBodyLine(j) /\ Head(ap.lines[j]) = "-"
IsInsert(j) == IsBodyLine(j) /\ Head(ap.lines[j]) = "+"

HeaderOk(h) == _HUNK_RE(Strip(ap.lines[h])).ok
OldStart(h) == _HUNK_RE(Strip(ap.lines[h])).old_start

\* The position of old (0-based) hunk h asks for: OLD_START - 1, at least 0
\* and at most the number of lines of old.
Target(h) ==
    With(OldStart(h) - 1, LAMBDA t :
        IF t < 0 THEN 0 ELSE IF t > ap.old_len THEN ap.old_len ELSE t)

\* The context and delete lines among the lines lo..hi.
Consuming(lo, hi) == {k \in lo..hi : IsContext(k) \/ IsDelete(k)}

\* The cursor (0-based index into old) at which body line j is read: the
\* target of its hunk plus the context and delete lines of the hunk before it.
CursorAt(j) == Target(HunkOf(j)) + Cardinality(Consuming(HunkOf(j) + 1, j - 1))

\* Body line j, a context or delete line, equals the line of old at its cursor.
Matches(j) ==
    /\ CursorAt(j) < ap.old_len
    /\ ap.old_lines[CursorAt(j) + 1] = Tail(ap.lines[j])

MatchErrors ==
    {"context EOF", "context mismatch", "delete EOF", "delete mismatch"}

(***************************************************************************)
(* C1: apply_unified_diff succeeds only if every context and delete body   *)
(* line equals, terminator included, the line of old at the cursor when it *)
(* is read; no line is read past the first one that differs or that finds  *)
(* the cursor at the end of old: the call raises there and returns no text.*)
(***************************************************************************)
C1_ContextDeleteExact ==
    /\ \A j \in 1..ap.i : (IsContext(j) \/ IsDelete(j)) => Matches(j)
    /\ ap.pc = "done" => ap.i = Len(ap.lines)
    /\ ap.pc = "error" => ap.result = <<>>
    /\ (ap.pc = "error" /\ ap.err \in MatchErrors)
          => /\ IsContext(ap.i + 1) \/ IsDelete(ap.i + 1)
             /\ ~Matches(ap.i + 1)
             /\ (ap.err \in {"context EOF", "delete EOF"})
                   <=> (CursorAt(ap.i + 1) >= ap.old_len)
    /\ (ap.pc = "error" /\ ap.i < Len(ap.lines)
           /\ (IsContext(ap.i + 1) \/ IsDelete(ap.i + 1)))
          => ap.err \in MatchErrors

\* A delete or context line that differs from the line of old only in its
\* terminator (LF against CRLF) has made the call raise.
C1_Witness ==
    /\ ap.pc = "error"
    /\ ap.err \in {"context mismatch", "delete mismatch"}
    /\ Chomp(ap.old_lines[CursorAt(ap.i + 1) + 1]) = Chomp(Tail(ap.lines[ap.i + 1]))

RECURSIVE Ascending(_)
\* The numbers of a finite set in increasing order.
Ascending(S) ==
    IF S = {} THEN <<>>
    ELSE With(CHOOSE x \in S : \A y \in S : x <= y, LAMBDA m :
             <<m>> \o Ascending(S \ {m}))

AllLines == 1..Len(ap.lines)
Deletes == {j \in AllLines : IsDelete(j)}
Inserts == {j \in AllLines : IsInsert(j)}

\* The line of old at the 0-based position k is removed by a delete line.
Deleted(k) == \E j \in Deletes : CursorAt(j) = k

\* The texts of the insert lines read with the cursor at k, in diff order.
InsertsAt(k) ==
    With(Ascending({j \in Inserts : CursorAt(j) = k}), LAMBDA js :
        [n \in 1..Len(js) |-> Tail(ap.lines[js[n]])])

RECURSIVE MergedFrom(_)
\* From the position k of old on: the inserts read at each position, then the
\* line of old at it unless a delete line removed it.
MergedFrom(k) ==
    IF k > ap.old_len THEN <<>>
    ELSE InsertsAt(k)
           \o (IF k < ap.old_len /\ ~Deleted(k)
               THEN <<ap.old_lines[k + 1]>> ELSE <<>>)
           \o MergedFrom(k + 1)

\* The lines of old in their order, delete lines removed, inserts put in.
Merged == MergedFrom(0)

MergedCount == ap.old_len - Cardinality(Deletes) + Cardinality(Inserts)

(***************************************************************************)
(* C2 as stated: on success the result is the lines of old in order with   *)
(* the matched delete lines removed and the insert texts put in at their   *)
(* cursor, and the result has old_len - deletes + inserts lines.           *)
(***************************************************************************)
C2_Original ==
    ap.pc = "done"
       => /\ ap.result = Join(Merged)
          /\ Len(_split_lines_keepends(ap.result)) = MergedCount

(***************************************************************************)
(* C2 amended: on success the result is the concatenation of old_len -     *)
(* deletes + inserts pieces, the kept lines of old in order and the insert *)
(* texts at their cursor; it has that many lines when every piece ends     *)
(* with LF.                                                                *)
(***************************************************************************)
C2_ResultIsMerge ==
    ap.pc = "done"
       => /\ ap.out = Merged
          /\ ap.result = Join(Merged)
          /\ Len(ap.out) = MergedCount
          /\ (\A n \in 1..Len(ap.out) : EndsWith(ap.out[n], <<"\n">>))
                => Len(_split_lines_keepends(ap.result)) = MergedCount

\* A success with two hunks that kept a line of old before the first hunk and
\* a line between the hunks, and inserted text.
C2_Witness ==
    /\ ap.pc = "done"
    /\ \E h1, h2 \in AllLines :
          /\ h1 < h2 /\ IsHeaderLine(h1) /\ IsHeaderLine(h2)
          /\ Target(h1) > 0
          /\ Target(h2) > Target(h1) + Cardinality(Consuming(h1, h2))
    /\ Inserts # {}
    /\ ap.result # old

\* The last line of the body of hunk h: the line before the next header or
\* the last line of the diff.
BodyEnd(h) ==
    With({g \in (h + 1)..Len(ap.lines) : IsHeaderLine(g)}, LAMBDA later :
        IF later = {} THEN Len(ap.lines)
        ELSE (CHOOSE g \in later : \A x \in later : g <= x) - 1)

\* Hunk h has no body line other than meta lines.
EmptyHunk(h) ==
    IsHeaderLine(h) /\ \A j \in (h + 1)..BodyEnd(h) : IsMeta(j)

(***************************************************************************)
(* C3: for any old, a diff with a hunk header that no body line other than *)
(* meta lines follows makes apply_unified_diff raise: the call never       *)
(* succeeds and never goes past that hunk, and when it reaches the end of  *)
(* that body the error is "empty hunk body".                               *)
(***************************************************************************)
C3_EmptyHunkRaises ==
    \A h \in AllLines :
       EmptyHunk(h)
          => /\ ap.pc # "done"
             /\ ap.i <= BodyEnd(h)
             /\ ~(ap.pc = "header" /\ ap.i = BodyEnd(h))
             /\ (ap.pc = "error" /\ ap.i = BodyEnd(h) /\ HunkOf(ap.i) = h)
                   => ap.err = "empty hunk body"

\* The end of a body made of a meta line only has been reached, and a hunk
\* with a body came before it.
C3_Witness ==
    /\ ap.pc = "error"
    /\ ap.err = "empty hunk body"
    /\ \E h \in AllLines :
          /\ EmptyHunk(h) /\ BodyEnd(h) > h /\ ap.i = BodyEnd(h)
          /\ \E g \in 1..(h - 1) : IsHeaderLine(g)

\* Hunk h has a well-formed header whose OLD_START - 1 lies past the end of old.
PastEof(h) ==
    IsHeaderLine(h) /\ HeaderOk(h) /\ OldStart(h) - 1 > ap.old_len

\* The header of hunk h has been passed and no later header has.
CurrentHunk(h) == ap.i >= h /\ HunkOf(ap.i) = h

(***************************************************************************)
(* C5: a hunk whose OLD_START - 1 is past the end of old never fails for   *)
(* its position; once its header is passed the cursor stands at old_len,   *)
(* every line of old not deleted before has been emitted, and the inserts  *)
(* of the hunk are the last pieces of the output.  A hunk with OLD_START 0 *)
(* is read with the cursor at 0.                                           *)
(***************************************************************************)
C5_PastEofClamped ==
    \A h \in AllLines :
       /\ PastEof(h)
             => /\ ~(/\ ap.pc = "error" /\ ap.i + 1 = h
                     /\ ap.err = "target before current index")
                /\ CurrentHunk(h)
                      => LET ins == Ascending({j \in (h + 1)..ap.i : IsInsert(j)})
                             pre == Len(ap.out) - Len(ins)
                         IN  /\ ap.old_idx = ap.old_len
                             /\ pre = ap.old_len
                                       - Cardinality({j \in Deletes : j < h})
                                       + Cardinality({j \in Inserts : j < h})
                             /\ \A n \in 1..Len(ins) :
                                   ap.out[pre + n] = Tail(ap.lines[ins[n]])
       /\ (IsHeaderLine(h) /\ HeaderOk(h) /\ OldStart(h) = 0 /\ CurrentHunk(h))
             => ap.old_idx = Cardinality(Consuming(h + 1, ap.i))

\* A success whose last hunk lies past the end of a non-empty old: the header
\* emitted lines of old that were not yet copied, then a line was appended.
C5_Witness ==
    /\ ap.pc = "done"
    /\ ap.old_len > 0
    /\ \E h \in AllLines :
          /\ PastEof(h) /\ CurrentHunk(h)
          /\ \E j \in (h + 1)..ap.i : IsInsert(j)
          /\ Cardinality({j \in Deletes : j < h}) < ap.old_len
          /\ ap.out[Len(ap.out)] = Tail(ap.lines[ap.i])

\* The header before the header h; 0 when h is the first.
PrevHeader(h) == IF h <= 1 THEN 0 ELSE HunkOf(h - 1)

\* The cursor the hunks before h leave: the target of the preceding hunk plus
\* the context and delete lines of its body; 0 for the first hunk.
CursorBefore(h) ==
    IF PrevHeader(h) = 0 THEN 0
    ELSE Target(PrevHeader(h)) + Cardinality(Consuming(PrevHeader(h) + 1, h - 1))

RejectedAt(h) ==
    ap.pc = "error" /\ ap.i + 1 = h /\ ap.err = "target before current index"

AcceptedAt(h) == ap.i >= h

\* The hunks the position check of apply.py 62 is reached for.
PositionedHunks == {h \in AllLines : IsHeaderLine(h) /\ HeaderOk(h)}

(***************************************************************************)
(* C6 as stated: a hunk is rejected with "target before current index" if  *)
(* and only if its OLD_START is smaller than that of the preceding hunk.   *)
(***************************************************************************)
C6_Original ==
    \A h \in PositionedHunks :
       PrevHeader(h) > 0
          => /\ RejectedAt(h) => OldStart(h) < OldStart(PrevHeader(h))
             /\ AcceptedAt(h) => OldStart(h) >= OldStart(PrevHeader(h))

(***************************************************************************)
(* C6 amended: a hunk is rejected with "target before current index" if    *)
(* and only if its target, max(0, OLD_START - 1) clamped to old_len, lies  *)
(* before the cursor the preceding hunk left (its target plus the context  *)
(* and delete lines it consumed); the first hunk is never rejected so.     *)
(***************************************************************************)
C6_RejectedIffBeforeCursor ==
    \A h \in PositionedHunks :
       /\ RejectedAt(h) => Target(h) < CursorBefore(h)
       /\ AcceptedAt(h) => Target(h) >= CursorBefore(h)
       /\ PrevHeader(h) = 0 => ~RejectedAt(h)

\* A hunk was rejected although its OLD_START is not smaller than that of the
\* hunk before it.
C6_Witness ==
    \E h \in PositionedHunks :
       /\ PrevHeader(h) > 0
       /\ RejectedAt(h)
       /\ OldStart(h) >= OldStart(PrevHeader(h))

(***************************************************************************)
(* C4: for old = "" and every diff _validate_diff_for_empty_old accepts,   *)
(* apply_unified_diff succeeds and returns the texts of the insert lines   *)
(* in diff order.                                                          *)
(***************************************************************************)
C4_ValidatedEmptyOldApplies ==
    (old = <<>> /\ _validate_diff_for_empty_old(diff).ok
        /\ ap.pc \in {"done", "error"})
       => /\ ap.pc = "done"
          /\ LET ins == Ascending(Inserts)
             IN  ap.result = Join([n \in 1..Len(ins) |-> Tail(ap.lines[ins[n]])])

(***************************************************************************)
(* C7: for all old and diff, if apply_unified_diff(old, diff) and          *)
(* apply_unified_diff(old, _normalize_unified_diff(diff)) both succeed,    *)
(* they return the same text.                                              *)
(***************************************************************************)
C7_NormalizePreservesApply ==
    (ap.pc = "done" /\ apn.pc = "done") => ap.result = apn.result

(***************************************************************************)
(* What the claims on the results of edit_plan speak of.                   *)
(***************************************************************************)
\* edit_plan has returned.
EditDone == ed.pc = "done"

\* A line that is a file header of a unified diff.
IsFileHeaderLine(line) ==
    StartsWith(line, <<"-", "-", "-", " ">>) \/ StartsWith(line, <<"+", "+", "+", " ">>)

\* The internal form of a patch: hunks only, no file header line.
HunksOnly(p) == \A k \in DOMAIN SplitLines(p) : ~IsFileHeaderLine(SplitLines(p)[k])

\* "--- a/<path>\n+++ b/<path>\n"
DisplayHeader(path) ==
    <<"-", "-", "-", " ", "a", "/">> \o path \o <<"\n">>
        \o <<"+", "+", "+", " ", "b", "/">> \o path \o <<"\n">>

\* C22: every ok:true result of edit_plan carries a patch with no "--- " or
\* "+++ " file header line and a diff that is "--- a/<path>\n+++ b/<path>\n"
\* followed by that patch.
C22_OkResultForm ==
    (EditDone /\ ed.result.ok)
        => /\ HunksOnly(ed.result.patch)
           /\ ed.result.diff = DisplayHeader(ed.path) \o ed.result.patch

(***************************************************************************)
(* What the claims on the rounds of edit_plan speak of: the calls of the   *)
(* model made so far, each with the hint of its prompt and its answer.     *)
(***************************************************************************)
\* The number of model calls made.
NCalls == Len(ed.model_calls)

\* The diff read out of the answer to the k-th call, taken as a round's answer:
\* loads_obj, normalization, and the salvage from the first "@@" of the raw text.
DiffOfCall(k) == RoundDiffOf(ed.model_calls[k].answer)

\* The k-th call was a full-text call with the given reason as its hint.
IsFallbackCall(k, reason) ==
    ed.model_calls[k].kind = "fulltext" /\ ed.model_calls[k].repair = Hint(reason, "")

\* Round 1 has been answered and its answer yields no text with "@@".
Round1NoDiff == NCalls >= 1 /\ ~Contains(DiffOfCall(1), AT_AT)

\* C24: when the answer of round 1 yields no diff text with "@@", the driver is
\* in the full-replace fallback with reason missing_diff right after that
\* answer; the only call that follows is the fallback's own, after which
\* edit_plan has returned: no second diff round, no guard-repair call.
C24_MissingDiffGoesToFallback ==
    Round1NoDiff
        => /\ NCalls = 1 => (ed.pc = "fallback" /\ ed.reason = "missing_diff")
           /\ NCalls >= 2 => (NCalls = 2 /\ IsFallbackCall(2, "missing_diff") /\ EditDone)

C24_Witness == Round1NoDiff /\ NCalls = 2 /\ EditDone /\ ~ed.result.ok

\* apply_unified_diff raised on the diff of round 1: the answer held a diff
\* with "@@" that the empty-file validator let through and the applier
\* rejected.
Round1ApplyRaised ==
    /\ NCalls >= 1
    /\ Contains(DiffOfCall(1), AT_AT)
    /\ (old = <<>> => _validate_diff_for_empty_old(DiffOfCall(1)).ok)
    /\ apply_unified_diff(old, DiffOfCall(1)).pc = "error"

\* A second diff round has been started: the driver waits for its answer or
\* has read it.
Round2Started ==
    \/ ed.pc = "round2"
    \/ NCalls >= 2 /\ ed.model_calls[2].kind = "diff"
                   /\ ed.model_calls[2].repair.head = "patch_apply_failed"

\* The answer of round 2 yields no "@@", or a diff the applier rejects.
Round2Failed ==
    /\ NCalls >= 2 /\ Round1ApplyRaised
    /\ \/ ~Contains(DiffOfCall(2), AT_AT)
       \/ /\ (old = <<>> => _validate_diff_for_empty_old(DiffOfCall(2)).ok)
          /\ apply_unified_diff(old, DiffOfCall(2)).pc = "error"

\* The full-text calls among the calls made.
FallbackCalls == {k \in 1..NCalls : ed.model_calls[k].kind = "fulltext"}

\* C25: a second diff round is started exactly when apply_unified_diff raised
\* on the diff of round 1, and the prompt of its call carries the hint
\* patch_apply_failed with the message of that failure; when round 2 yields no
\* "@@" or a diff that does not apply either, the driver enters the fallback,
\* whose call is the third and last and the only full-text call.
C25_SecondRoundIffApplyRaised ==
    /\ NCalls >= 1 => (Round2Started <=> Round1ApplyRaised)
    /\ (NCalls >= 2 /\ Round1ApplyRaised)
          => ed.model_calls[2].repair
                = Hint("patch_apply_failed", apply_unified_diff(old, DiffOfCall(1)).err)
    /\ Round2Failed
          => /\ NCalls = 2 => ed.pc = "fallback"
             /\ NCalls >= 3 => (NCalls = 3 /\ FallbackCalls = {3} /\ EditDone)

C25_Witness ==
    /\ Round2Failed /\ NCalls = 3 /\ EditDone
    /\ Contains(DiffOfCall(2), AT_AT)
    /\ ed.model_calls[3].repair = Hint("patch_apply_failed twice", "")

C25_WitnessNoSecondRound == EditDone /\ NCalls = 2 /\ ~Round1ApplyRaised /\ ed.model_calls[2].kind = "diff"

\* Finalize has rejected the diff of a round that applied: out holds that
\* rejection (out1 or out2 of the code).
RoundRejected == ed.out.error = "guard_blocked"

\* The place of the guard-repair call among the calls: after the round it
\* repairs.
GuardRepairCall == IF Round1ApplyRaised THEN 3 ELSE 2

\* The hint the repair-hint table gives for a detail.
TableHint(detail) ==
    IF detail = "guard: rewrite too violent" THEN Hint("rewrite_too_violent", "")
    ELSE Hint("guard_blocked", detail)

\* The diff of the guard-repair answer has "@@" and applies.
RepairApplies ==
    LET diffg == RepairDiffOf(ed.model_calls[GuardRepairCall].answer)
    IN  Contains(diffg, AT_AT) /\ apply_unified_diff(old, diffg).pc = "done"

\* C26: when finalize rejects a diff that applied, one guard-repair call
\* follows, with the hint of the table for the detail of the rejection, and
\* edit_plan returns after it: the result of the retry when the repaired diff
\* applies and finalizes with ok true, and else the rejection of the round.
C26_OneGuardRepair ==
    RoundRejected
        => /\ NCalls = GuardRepairCall - 1 => ed.pc \in {"repair1", "repair2"}
           /\ NCalls >= GuardRepairCall
                => /\ NCalls = GuardRepairCall /\ EditDone
                   /\ ed.model_calls[GuardRepairCall].kind = "diff"
                   /\ ed.model_calls[GuardRepairCall].repair = TableHint(ed.out.detail)
                   /\ ed.applied_g = RepairApplies
                   /\ (ed.applied_g /\ ed.outg.ok) => (ed.result = ed.outg /\ ed.result.ok)
                   /\ ~(ed.applied_g /\ ed.outg.ok) => ed.result = ed.out

RepairDone == RoundRejected /\ NCalls = GuardRepairCall /\ EditDone

C26_Witness == RepairDone /\ ed.applied_g /\ ed.outg.ok

C26_WitnessStillRejected ==
    RepairDone /\ ed.applied_g /\ ~ed.outg.ok /\ ed.outg # ed.out

C26_WitnessViolent == RepairDone /\ ed.out.detail = "guard: rewrite too violent"

C26_WitnessRound2 == RepairDone /\ GuardRepairCall = 3 /\ ed.applied_g /\ ed.outg.ok

\* The first finalize rejection of the round speaks of a rewrite too violent.
FirstRejectionViolent == RoundRejected /\ ed.out.detail = "guard: rewrite too violent"

\* The guard-repair retry has finalized with ok true.
RepairSucceeded == RepairDone /\ ed.applied_g /\ ed.outg.ok

\* C27 as stated: after a first rejection for a rewrite too violent, the
\* first failed-finalize result is returned, also when the guard-repair retry
\* finalizes with ok true.
C27_Original == (RepairDone /\ FirstRejectionViolent) => ed.result = ed.out

\* C27: after a first rejection for a rewrite too violent, the first
\* failed-finalize result is returned exactly when the guard-repair retry does
\* not finalize with ok true; a retry that does is returned as the success it
\* is, as after any other rejection.
C27_ViolentSurfacedUnlessRepaired ==
    (RepairDone /\ FirstRejectionViolent)
        => /\ RepairSucceeded => (ed.result = ed.outg /\ ed.result.ok)
           /\ ~RepairSucceeded => (ed.result = ed.out /\ ~ed.result.ok)

C27_Witness == FirstRejectionViolent /\ RepairSucceeded

C27_WitnessSurfaced == RepairDone /\ FirstRejectionViolent /\ ~RepairSucceeded /\ ed.applied_g

\* edit_plan has returned a failure other than file_not_found.
EditFailed == EditDone /\ ~ed.result.ok /\ ed.result.error # "file_not_found"

\* The last call made was the full-text call of the fallback.
LastCallIsFallback == NCalls >= 1 /\ ed.model_calls[NCalls].kind = "fulltext"

\* The result is what _fulltext_fallback returns for the answer to the last
\* call, under some outcome of its two syntax probes.
ResultIsOfFallback ==
    /\ LastCallIsFallback
    /\ \E compiles1 \in BOOLEAN, compiles2 \in BOOLEAN :
          ed.result = _fulltext_fallback(ed.path, ed.instruction, old,
                                         ed.model_calls[NCalls].answer, compiles1, compiles2)

\* The fallback has been entered.
FallbackEntered == ed.pc = "fallback" \/ FallbackCalls # {}

\* The empty-file validator rejects the diff of the k-th call.
ValidatorRejects(k) ==
    /\ NCalls >= k /\ old = <<>>
    /\ Contains(DiffOfCall(k), AT_AT)
    /\ ~_validate_diff_for_empty_old(DiffOfCall(k)).ok

\* What sends edit_plan to the fallback: no diff in round 1, a diff for an
\* empty file the validator rejects (round 1 or 2), or a round 2 that fails.
FallbackCause ==
    \/ Round1NoDiff
    \/ ValidatorRejects(1)
    \/ Round1ApplyRaised /\ (Round2Failed \/ ValidatorRejects(2))

\* C28 as stated: every ok:false result other than file_not_found is the
\* result of the fallback, run after the diff route was given up.
C28_Original == EditFailed => ResultIsOfFallback

\* C28: the fallback is entered exactly on a missing round-1 diff, on a diff
\* for an empty file that the validator rejects, or on a failed round 2; every
\* ok:false result other than file_not_found is either the result of the
\* fallback or the finalize rejection of a round, returned after the one
\* guard-repair call of that round with no fallback run.
C28_FailureIsFallbackOrRejection ==
    /\ NCalls >= 1 => (FallbackEntered <=> FallbackCause)
    /\ EditFailed
          => \/ ResultIsOfFallback /\ FallbackCalls = {NCalls}
             \/ /\ RoundRejected /\ NCalls = GuardRepairCall
                /\ ed.result = ed.out /\ FallbackCalls = {}

C28_Witness == EditFailed /\ RoundRejected /\ FallbackCalls = {}

C28_WitnessFallback == EditFailed /\ ResultIsOfFallback /\ NCalls = 3

\* C29: once _fulltext_fallback is entered one more call of the model is
\* made, the full-text call with the reason as its hint; it is the last call,
\* no diff call follows it, and edit_plan returns what the fallback returns for
\* its answer, a success or a rejection, as it is.
C29_FallbackTerminal ==
    /\ ed.pc = "fallback" => FallbackCalls = {}
    /\ FallbackCalls # {}
          => /\ EditDone /\ FallbackCalls = {NCalls}
             /\ ed.model_calls[NCalls].repair = Hint(ed.reason, "")
             /\ ResultIsOfFallback

C29_Witness == FallbackCalls # {} /\ EditDone /\ ~ed.result.ok /\ ed.result.has_patch

C29_WitnessSuccess == FallbackCalls # {} /\ EditDone /\ ed.result.ok

\* C30: whatever the model answers, edit_plan returns a result, after at most
\* three calls of the model; when the target file does not exist no call is
\* made and the result is file_not_found.
C30_TerminatesInThreeCalls ==
    /\ [](ed.calls = NCalls /\ NCalls <= 3)
    /\ [](~ed.exists => (NCalls = 0 /\ (EditDone => ed.result.error = "file_not_found")))
    /\ [](ed.result.error = "file_not_found" => ~ed.exists)
    /\ [][ed'.calls \in {ed.calls, ed.calls + 1} /\ ed'.pc # ed.pc /\ ed.pc # "done"]_vars
    /\ <>EditDone

C30_Witness == EditDone /\ NCalls = 3 /\ FallbackCalls = {}

C30_WitnessNoFile == EditDone /\ ~ed.exists /\ NCalls = 0

(***************************************************************************)
(* daemon.py, protocol.py: one connection. The peer writes request lines   *)
(* and may close its side or the whole connection; client_handler reads a  *)
(* line, answers it and drains, until the end of the stream.               *)
(***************************************************************************)
MaxRequests == 3   \* the peer writes at most this many request lines

\* A request line: json tells what json.loads(data) gives ("invalid": it
\* raises; "value": a value that is no dict; "object": a dict), cmd and root
\* are req.get('cmd') and whether 'root' names a directory, long tells whether
\* the line is longer than the limit of the StreamReader (2**16 bytes, the
\* default of asyncio.start_unix_server, daemon.py 81).
RequestLine(json, cmd, root, long) ==
    [json |-> json, cmd |-> cmd, root |-> root, long |-> long]

RequestLines ==
    { RequestLine("invalid", "", FALSE, FALSE),
      RequestLine("value", "", FALSE, FALSE),
      RequestLine("object", "ping", FALSE, FALSE),
      RequestLine("object", "nope", FALSE, FALSE),
      RequestLine("object", "edit", FALSE, FALSE),
      RequestLine("object", "edit", TRUE, FALSE),
      RequestLine("object", "edit_apply_full", TRUE, TRUE) }

\* What the tool behind a command does: it returns a dict with a boolean ok,
\* which json.dumps(...).encode("utf-8") can write or not (a lone surrogate),
\* or it raises a ValueError or another Exception.
ToolOutcomes ==
    { [kind |-> "returns", ok |-> TRUE, error |-> "", sendable |-> TRUE],
      [kind |-> "returns", ok |-> FALSE, error |-> "guard_blocked", sendable |-> TRUE],
      [kind |-> "returns", ok |-> TRUE, error |-> "", sendable |-> FALSE],
      [kind |-> "ValueError", ok |-> FALSE, error |-> "invalid_path", sendable |-> TRUE],
      [kind |-> "Exception", ok |-> FALSE, error |-> "", sendable |-> TRUE] }

\* protocol.py 40-42: {'type': 'result', **payload}
_result(payload) == payload @@ [type |-> "result"]

\* An event with its fate in _send: sendable tells whether json.dumps and
\* encode succeed on it.
Event(ok, error, sendable) ==
    [ev |-> _result([ok |-> ok, error |-> error]), sendable |-> sendable]

ToolCommands == {"edit", "edit_apply", "edit_apply_full", "plan", "shell", "git_status", "git_add", "git_restore"}

\* protocol.py 44-173: handle_request(req) for a dict req; raised is FALSE,
\* every exception below req.get being caught at 170-173
handle_request(req, tool) ==
    IF req.cmd = "ping" THEN Event(TRUE, "", TRUE)
    ELSE IF req.cmd \notin ToolCommands THEN Event(FALSE, "unknown_cmd", TRUE)
    ELSE IF ~req.root THEN Event(FALSE, "missing_root", TRUE)
    ELSE IF tool.kind = "returns" THEN Event(tool.ok, tool.error, tool.sendable)
    ELSE IF tool.kind = "ValueError" THEN Event(FALSE, tool.error, TRUE)
    ELSE Event(FALSE, "internal_error", TRUE)

\* daemon.py 42-59: the event written for the line data
client_handler_reply(data, tool) ==
    With(handle_request(data, tool), LAMBDA resp :
        IF data.json = "invalid" THEN Event(FALSE, "bad_json", TRUE).ev
        ELSE IF data.json = "value" THEN Event(FALSE, "handler_crash", TRUE).ev
        ELSE IF ~resp.sendable THEN Event(FALSE, "handler_crash", TRUE).ev
        ELSE resp.ev)

\* daemon.py 38 with readline of asyncio: a line over the limit raises
\* ValueError, which no clause of client_handler catches
ReadlineRaises(line) == line.long

InitConn ==
    /\ old = <<>>
    /\ diff = <<>>
    /\ ap = ApplyIdle
    /\ normalized = NormIdle
    /\ apn = ApplyIdle
    /\ guard = GuardIdle
    /\ ed = EditIdle
    /\ rp = PathIdle
    /\ ah = HandlerIdle
    /\ lj = JsonIdle
    /\ fi = FutureIdle
    /\ srv = ServerIdle
    /\ conn = [ConnIdle EXCEPT !.pc = "read", !.peer = "open"]

connFrame == <<old, diff, ap, normalized, apn, guard, ed, rp, ah, lj, fi, srv>>

\* The peer writes one more request line.
PeerSend ==
    /\ conn.peer = "open"
    /\ conn.nsent < MaxRequests
    /\ \E line \in RequestLines :
          conn' = [conn EXCEPT !.inbox = Append(@, line), !.nsent = @ + 1]
    /\ UNCHANGED connFrame

\* The peer closes its writing side and goes on reading.
PeerShutdown ==
    /\ conn.peer = "open"
    /\ conn' = [conn EXCEPT !.peer = "eof"]
    /\ UNCHANGED connFrame

\* The peer closes the connection.
PeerClose ==
    /\ conn.peer \in {"open", "eof"}
    /\ conn' = [conn EXCEPT !.peer = "gone"]
    /\ UNCHANGED connFrame

\* daemon.py 38-40, 64-69: readline returns a line, or b"" at the end of the
\* stream (break), or raises; the finally clause closes the writer
ReadLine ==
    /\ conn.pc = "read"
    /\ \/ /\ conn.inbox # <<>>
          /\ conn' = IF ReadlineRaises(Head(conn.inbox))
                     THEN [conn EXCEPT !.pc = "closed", !.inbox = Tail(@),
                                       !.nread = @ + 1]
                     ELSE [conn EXCEPT !.pc = "handle", !.inbox = Tail(@),
                                       !.nread = @ + 1, !.data = <<Head(conn.inbox)>>]
       \/ /\ conn.inbox = <<>>
          /\ conn.peer \in {"eof", "gone"}
          /\ conn' = [conn EXCEPT !.pc = "closed"]
    /\ UNCHANGED connFrame

\* daemon.py 42-59: json.loads, handle_request and _send
HandleLine ==
    /\ conn.pc = "handle"
    /\ \E tool \in ToolOutcomes :
          conn' = [conn EXCEPT !.pc = "drain", !.data = <<>>,
                               !.sent = Append(@, [req |-> conn.nread,
                                                   ev |-> client_handler_reply(conn.data[1], tool)])]
    /\ UNCHANGED connFrame

\* daemon.py 22-28, 46-48, 61-62: _safe_drain; it can fail once the peer has
\* closed the connection, and then the loop is left
Drain ==
    /\ conn.pc = "drain"
    /\ \/ conn' = [conn EXCEPT !.pc = "read"]
       \/ /\ conn.peer = "gone"
          /\ conn' = [conn EXCEPT !.pc = "closed"]
    /\ UNCHANGED connFrame

NextConn == PeerSend \/ PeerShutdown \/ PeerClose \/ ReadLine \/ HandleLine \/ Drain

SpecConn == InitConn /\ [][NextConn]_vars

(***************************************************************************)
(* What the claim on the connection speaks of.                             *)
(***************************************************************************)
\* The k-th reply answers the k-th request and has the shape of a result.
ReplyInOrder(k) ==
    /\ conn.sent[k].req = k
    /\ conn.sent[k].ev.type = "result"
    /\ conn.sent[k].ev.ok \in BOOLEAN

\* The server has left the connection while the peer was still there to read,
\* or waits for a line with none left to read.
AllRead ==
    /\ conn.peer # "gone"
    /\ \/ conn.pc = "closed"
       \/ conn.pc = "read" /\ conn.inbox = <<>>

\* C21: on one connection the replies are results with a boolean ok, sent in
\* the order of the requests, one for each request read, and every request
\* line the peer wrote before it disconnected has its reply once the server
\* has read all there is.
C21_EveryRequestAnswered ==
    /\ \A k \in DOMAIN conn.sent : ReplyInOrder(k)
    /\ AllRead => Len(conn.sent) = conn.nsent

(***************************************************************************)
(* loads_obj called on a JSON object text in one of the forms a model      *)
(* writes it in.                                                           *)
(***************************************************************************)
\* The keys, identifiers all, and the values of the objects given
JsonKeys == { <<"d", "i", "f", "f">>, <<"k">> }

JsonStrings ==
    { <<"h", "e", "l", "l", "o">>,
      <<"i", "f", " ", "k", ":">>,
      <<"o", "\n", "k">>,
      <<"s", "\\", "n", "d">>,
      <<"s", LSEP, "y">> }

JsonValues == {JStr(s) : s \in JsonStrings} \cup {JObj([x \in {<<"k">>} |-> JStr(<<"o">>)])}

JsonObjects == UNION {[K -> JsonValues] : K \in SUBSET JsonKeys \ {{}}}

RECURSIVE WriteString(_)
\* The characters of a string between the quotes of its JSON text: a quote, a
\* backslash and a line feed escaped, the others as they are
WriteString(s) ==
    IF s = <<>> THEN <<>>
    ELSE (IF Head(s) = "\"" THEN <<"\\", "\"">>
          ELSE IF Head(s) = "\\" THEN <<"\\", "\\">>
          ELSE IF Head(s) = "\n" THEN <<"\\", "n">>
          ELSE <<Head(s)>>) \o WriteString(Tail(s))

\* A key, between quotes or as an identifier
WriteKey(k, quoted) == IF quoted THEN <<"\"">> \o k \o <<"\"">> ELSE k

RECURSIVE WriteValue(_, _)
RECURSIVE WriteMembers(_, _, _)
\* The JSON text of a value
WriteValue(v, quoted) ==
    IF v.t = "str" THEN <<"\"">> \o WriteString(v.s) \o <<"\"">>
    ELSE <<"{">> \o WriteMembers(v.m, DOMAIN v.m, quoted) \o <<"}">>

WriteMembers(m, keys, quoted) ==
    IF keys = {} THEN <<>>
    ELSE With(CHOOSE k \in keys : TRUE, LAMBDA k :
            WriteKey(k, quoted) \o <<":", " ">> \o WriteValue(m[k], quoted)
                \o (IF keys = {k} THEN <<>>
                    ELSE <<",", " ">> \o WriteMembers(m, keys \ {k}, quoted)))

JsonForms == {"bare", "fence", "fence_json", "unquoted"}

\* The text of the object m in a form: bare, inside a ``` or a ```json fence,
\* or with its keys unquoted
WriteForm(m, form) ==
    With(WriteValue(JObj(m), form # "unquoted"), LAMBDA t :
        IF form = "fence" THEN FENCE \o <<"\n">> \o t \o <<"\n">> \o FENCE
        ELSE IF form = "fence_json"
        THEN FENCE \o <<"j", "s", "o", "n", "\n">> \o t \o <<"\n">> \o FENCE
        ELSE t)

InitJson ==
    /\ old = <<>>
    /\ diff = <<>>
    /\ ap = ApplyIdle
    /\ normalized = NormIdle
    /\ apn = ApplyIdle
    /\ guard = GuardIdle
    /\ ed = EditIdle
    /\ rp = PathIdle
    /\ ah = HandlerIdle
    /\ conn = ConnIdle
    /\ fi = FutureIdle
    /\ srv = ServerIdle
    /\ \E m \in JsonObjects, form \in JsonForms :
        lj = [JsonIdle EXCEPT !.pc = "called", !.form = form,
                              !.text = WriteForm(m, form), !.bare = WriteForm(m, "bare")]

\* util_json.py 106-135: the call returns or raises
LoadsObj ==
    /\ lj.pc = "called"
    /\ \E r \in {loads_obj(lj.text)} :
        lj' = [lj EXCEPT !.pc = r.pc, !.err = r.err, !.value = r.value]
    /\ UNCHANGED <<old, diff, ap, normalized, apn, guard, ed, rp, ah, conn, fi, srv>>

NextJson == LoadsObj

SpecJson == InitJson /\ [][NextJson]_vars

(***************************************************************************)
(* What the claim on loads_obj speaks of.                                  *)
(***************************************************************************)
\* The call is over.
JsonDone == lj.pc \in {"returned", "raised"}

\* C23: loads_obj returns the same mapping for a JSON object text whether it
\* is given bare, inside an outer ``` or ```json fence, or with its keys
\* unquoted: whatever the form, the call returns, and returns what it returns
\* for the bare text.
C23_SameMappingInEveryForm ==
    JsonDone =>
        LET bare == loads_obj(lj.bare)
        IN  /\ bare.pc = "returned"
            /\ lj.pc = "returned"
            /\ lj.value = bare.value

(***************************************************************************)
(* The future-import checks and finalize on one old and one new, each made *)
(* of a few lines; the syntax probe is compile() as Python 3.11 answers on *)
(* such texts.                                                             *)
(***************************************************************************)
MaxFutureLines == 3   \* new is made of at most this many palette lines

FUTURE_STMT == FromFutureImport \o <<" ", "a", "n", "n", "o", "t", "a", "t", "i", "o", "n", "s">>

\* The statement has trailing text that is no comment.
TrailingJunk(rest) == Strip(rest) # <<>> /\ Head(Strip(rest)) # "#"

\* What the compiler knows after some lines: ok, FALSE once a SyntaxError is
\* due; doc, the quote of the string literal left open; stage, 0 before any
\* statement, 1 after the docstring, 2 after a future import, 3 after any
\* other statement.
PyStart == [ok |-> TRUE, doc |-> <<>>, stage |-> 0]

\* A string literal that opens the line s of the text at stage st.stage
PyString(st, s) ==
    With(Take(s, 3), LAMBDA q :
    With(FindFrom(Drop(s, 3), q, 0), LAMBDA j :
    With(IF st.stage = 0 THEN 1 ELSE 3, LAMBDA stage :
        IF j < 0 THEN [st EXCEPT !.doc = q, !.stage = stage]
        ELSE IF TrailingJunk(Drop(s, j + 6)) THEN [st EXCEPT !.ok = FALSE]
        ELSE [st EXCEPT !.stage = stage])))

\* compile() reads the line ln: inside a string literal up to its closing
\* quote; else a blank line or a comment, a triple-quoted string, a future
\* import (a SyntaxError after another statement), or the statement "a",
\* each with or without a comment after it; an indented statement, a BOM or a zero-width space outside a string and
\* any other text are a SyntaxError.
PyLine(st, ln) ==
    With(FindFrom(ln, st.doc, 0), LAMBDA j :
    With(Strip(ln), LAMBDA s :
    With(Strip(Take(ln, FirstIn(ln, 1, {"#"}) - 1)), LAMBDA stmt :
        IF ~st.ok THEN st
        ELSE IF st.doc # <<>>
        THEN (IF j < 0 THEN st
              ELSE IF TrailingJunk(Drop(ln, j + 3)) THEN [st EXCEPT !.ok = FALSE]
              ELSE [st EXCEPT !.doc = <<>>])
        ELSE IF \E k \in 1..Len(ln) : ln[k] \in _BOM_ZW THEN [st EXCEPT !.ok = FALSE]
        ELSE IF s = <<>> \/ Head(s) = "#" THEN st
        ELSE IF ln[1] \in {" ", "\t"} THEN [st EXCEPT !.ok = FALSE]
        ELSE IF StartsWith(s, _TRIPLE_DQ) \/ StartsWith(s, _TRIPLE_SQ) THEN PyString(st, s)
        ELSE IF stmt = FUTURE_STMT
        THEN (IF st.stage = 3 THEN [st EXCEPT !.ok = FALSE] ELSE [st EXCEPT !.stage = 2])
        ELSE IF stmt = <<"a">> THEN [st EXCEPT !.stage = 3]
        ELSE [st EXCEPT !.ok = FALSE])))

RECURSIVE PyLines(_, _)
PyLines(st, lines) ==
    IF lines = <<>> THEN st ELSE PyLines(PyLine(st, Head(lines)), Tail(lines))

\* coder.py 556: compile(content, path, "exec") raises no SyntaxError, for a
\* content whose lines end with LF
py_compile(content) ==
    With(PyLines(PyStart, SplitOn(content, "\n")), LAMBDA st : st.ok /\ st.doc = <<>>)

FUTURE_ANN == FUTURE_STMT \o <<"\n">>

\* The lines new is made of: a future import, one behind a BOM, a statement,
\* a comment, a docstring on one line, a docstring left open
FutureLinePalette ==
    { FUTURE_ANN,
      <<BOM>> \o FUTURE_ANN,
      <<"a", "\n">>,
      <<"#", " ", "c", "\n">>,
      <<"\"", "\"", "\"", "d", "\"", "\"", "\"", "\n">>,
      <<"\"", "\"", "\"", "d", "\n">> }

\* The texts of at most MaxFutureLines palette lines, each also without the
\* line feed of its last line
FutureNewTexts ==
    UNION {{Join(ls) : ls \in [1..n -> FutureLinePalette]} : n \in 0..MaxFutureLines}
    \cup UNION {{Chomp(Join(ls)) : ls \in [1..n -> FutureLinePalette]} : n \in 1..MaxFutureLines}

FutureOldTexts ==
    { <<"a", "\n">>,
      FUTURE_ANN \o <<"a", "\n">>,
      <<" ">> \o FUTURE_ANN \o <<"a", "\n">>,
      <<BOM>> \o FUTURE_ANN \o <<"a", "\n">> }

FuturePath == <<"a", ".", "p", "y">>

FutureInstruction == <<"f", "i", "x", " ", "i", "t">>

\* What a handler returns, or that it goes on to write
Verdict(h) ==
    IF h.pc = "returned"
    THEN [ok |-> h.result.ok, error |-> h.result.error, detail |-> h.result.detail]
    ELSE [ok |-> TRUE, error |-> "", detail |-> ""]

InitFuture ==
    /\ old = <<>>
    /\ diff = <<>>
    /\ ap = ApplyIdle
    /\ normalized = NormIdle
    /\ apn = ApplyIdle
    /\ guard = GuardIdle
    /\ ed = EditIdle
    /\ rp = PathIdle
    /\ ah = HandlerIdle
    /\ conn = ConnIdle
    /\ lj = JsonIdle
    /\ srv = ServerIdle
    /\ \E o \in FutureOldTexts, new \in FutureNewTexts :
        fi = [FutureIdle EXCEPT !.pc = "called", !.path = FuturePath, !.old = o, !.new = new]

futureFrame == <<old, diff, ap, normalized, apn, guard, ed, rp, ah, conn, lj, srv>>

\* coder.py 601, 919: new2 = _autofix_future_import(old, new), and the same
\* call on new2
Autofix ==
    /\ fi.pc = "called"
    /\ \E r \in {_autofix_future_import(fi.old, fi.new)} :
        fi' = [fi EXCEPT !.pc = "fixed", !.new2 = r,
                         !.again = _autofix_future_import(fi.old, r)]
    /\ UNCHANGED futureFrame

\* guards.py 74-87 and coder.py 403-456: the two future-import checks on new
FutureChecks ==
    /\ fi.pc = "fixed"
    /\ fi' = [fi EXCEPT !.pc = "checked",
                        !.coder = _future_import_guard(fi.old, fi.new),
                        !.guards = _guard_future_import(fi.old, fi.new)]
    /\ UNCHANGED futureFrame

\* coder.py 600-635, _finalize_ok, and coder.py 919-944, the same steps of
\* apply_edit on the text the patch gave
Finalize ==
    /\ fi.pc = "checked"
    /\ \E compiles \in {py_compile(fi.new2)} :
        \E out \in {_finalize_ok(fi.path, FutureInstruction, fi.old, fi.new, <<>>, compiles)} :
            fi' = [fi EXCEPT !.pc = "done", !.compiles = compiles,
                      !.out = [ok |-> out.ok, error |-> out.error, detail |-> out.detail],
                      !.step = Verdict(apply_edit_guards(
                                   [HandlerIdle EXCEPT !.path = fi.path,
                                                       !.instruction = FutureInstruction],
                                   fi.path, fi.old, fi.new2, compiles))]
    /\ UNCHANGED futureFrame

NextFuture == Autofix \/ FutureChecks \/ Finalize

SpecFuture == InitFuture /\ [][NextFuture]_vars

(***************************************************************************)
(* What the claims on the future-import checks speak of.                   *)
(***************************************************************************)
\* The syntax probe has failed on the autofixed new contents.
ProbeFailed == fi.pc = "done" /\ ~_py_syntax_ok(fi.path, fi.compiles)

\* C31: in _finalize_ok and in the same step of apply_edit, when the syntax
\* probe fails on the autofixed new contents the result is guard_blocked with
\* detail future_import_moved or syntax_error_after_edit, and no other.
C31_ProbeFailureDetail ==
    ProbeFailed =>
        /\ ~fi.out.ok /\ fi.out.error = "guard_blocked"
        /\ fi.out.detail \in {"future_import_moved", "syntax_error_after_edit"}
        /\ fi.step = fi.out

\* C31 as the code has it: on a failed syntax probe the result is
\* guard_blocked, with the reason of _future_import_guard on the autofixed
\* contents when that guard fails (future_import_moved or
\* future_import_removed) and syntax_error_after_edit when it passes;
\* _finalize_ok and the same step of apply_edit give the same verdict.
C31_ProbeFailureGuardReason ==
    ProbeFailed =>
        LET fut == _future_import_guard(fi.old, fi.new2)
        IN  /\ ~fi.out.ok /\ fi.out.error = "guard_blocked"
            /\ fi.out.detail = IF fut.ok THEN "syntax_error_after_edit" ELSE fut.why
            /\ fi.out.detail \in {"future_import_moved", "future_import_removed",
                                  "syntax_error_after_edit"}
            /\ fi.step = fi.out

\* The probe failed on a text that has lost the future import: the detail
\* is future_import_removed.
C31_Witness ==
    /\ ProbeFailed /\ fi.out.detail = "future_import_removed"
    /\ fi.new2 = fi.new /\ fi.step = fi.out

\* The probe failed on a text whose future import stands behind a statement.
C31_WitnessMoved == ProbeFailed /\ fi.out.detail = "future_import_moved"


\* C32: _autofix_future_import is idempotent in its second argument, that is
\* autofix(old, autofix(old, new)) = autofix(old, new), and its result is
\* either new unchanged or a text that passes _future_import_guard(old, .).
C32_AutofixIdempotent ==
    fi.pc # "called" =>
        /\ fi.again = fi.new2
        /\ fi.new2 = fi.new \/ _future_import_guard(fi.old, fi.new2).ok

\* the lines of a text that are no future-import lines, line ends kept
OtherLines(text) == SelectSeq(_split_lines_keepends(text), NotFutureLineBomZw)

\* C33: _autofix_future_import only moves or re-inserts future-import lines:
\* the lines of its result that are no future-import lines are exactly those
\* of new, in the same order and with the same bytes, line ends included, also
\* when the last line of new has no line feed.
C33_OtherLinesKept ==
    fi.pc # "called" => OtherLines(fi.new2) = OtherLines(fi.new)

\* C36: the two future-import checks agree on every input:
\* guards._guard_future_import(old, new) and coder._future_import_guard(old,
\* new) return the same verdict and the same reason, also for lines that
\* start with a BOM or a zero-width space.
C36_FutureChecksAgree ==
    fi.pc \in {"checked", "done"} => fi.coder = fi.guards

(***************************************************************************)
(* What the claims on a patch for an empty file speak of.                  *)
(***************************************************************************)
\* The lines of the patch apply_edit was called with, as the caller wrote
\* them.
PatchLines == SplitLines(ah.payload.text)

\* Line k of the patch stands in a hunk body: a hunk header stands above it.
InHunkBody(k) == \E j \in 1..(k - 1) : StartsWith(PatchLines[j], AT_AT)

\* The patch has a context line or a delete line in a hunk body.
HasContextOrDelete ==
    \E k \in 1..Len(PatchLines) :
        /\ InHunkBody(k)
        /\ StartsWith(PatchLines[k], <<" ">>) \/ StartsWith(PatchLines[k], <<"-">>)

\* The patch has no line that starts with "+".
NoPlusLine == \A k \in 1..Len(PatchLines) : ~StartsWith(PatchLines[k], <<"+">>)

\* apply_edit has read an empty file and holds a patch with "@@".
EmptyOldPatched ==
    /\ ah.op = "apply_edit" /\ HasRead /\ PreviousBytes = <<>>
    /\ ah.payload.some /\ Contains(ah.payload.text, AT_AT)

\* C34: apply_edit on an existing empty file returns bad_patch_empty_old,
\* without writing, for every patch that contains "@@" and has a context line
\* or a delete line in a hunk body, and for a patch with no "+" line; the
\* detail is context_lines, deletions, invalid_line, empty_hunk or no_hunks.
C34_EmptyOldRejected ==
    (EmptyOldPatched /\ (HasContextOrDelete \/ NoPlusLine))
        => /\ RejectedWith("bad_patch_empty_old")
           /\ ah.result.detail \in {"context_lines", "deletions", "invalid_line",
                                    "empty_hunk", "no_hunks"}

\* C37: whenever apply_edit or apply_full_replace returns a result with ok
\* false, for any reason, a failed staging step included, the target file
\* holds the same contents as before the call.
C37_FailureLeavesFile ==
    (HasRead /\ ah.pc = "returned" /\ ~ah.result.ok) => ReaderSees = PreviousBytes

\* C37 as the code has it: a result with ok false and an error other than
\* git_add_failed leaves the files, the links and the index of git as they
\* were before the call; git_add_failed is returned only for a call with
\* stage, after the write, and the file then holds the whole new contents.
C37_FailureBeforeWriteOnly ==
    (HasRead /\ ah.pc = "returned" /\ ~ah.result.ok)
        => IF ah.result.error = "git_add_failed"
           THEN ah.stage /\ ReaderSees = ah.new /\ ah.git # <<>> /\ ah.git[Len(ah.git)].rc # 0
           ELSE Untouched /\ ReaderSees = PreviousBytes

\* apply_full_replace has written the new text, git add has failed and the
\* call has returned ok false: the file holds the new text.
C37_Witness ==
    /\ ah.op = "apply_full_replace" /\ HasRead /\ ah.pc = "returned"
    /\ ~ah.result.ok /\ ah.result.error = "git_add_failed"
    /\ ReaderSees = ah.new /\ ReaderSees # PreviousBytes

\* A call with stage was refused by a guard: nothing is touched.
C37_WitnessRefused ==
    /\ HasRead /\ ah.pc = "returned" /\ ah.stage
    /\ ~ah.result.ok /\ ah.result.error = "guard_blocked"
    /\ Untouched /\ ReaderSees = PreviousBytes

\* apply_full_replace was called for an edit_apply_full request that carries
\* no instruction, has read the file, and the text differs from the old
\* contents with a similarity below the bound of the file.
UninstructedRewrite ==
    /\ ah.op = "apply_full_replace" /\ HasRead /\ ah.payload.some
    /\ ah.instruction = edit_apply_full_instruction(None)
    /\ LET new == _maybe_unescape_llm_string(ah.payload.text)
           ratio == _similarity_ratio(ReadOld, new)
       IN  /\ new # ReadOld
           /\ RatioBelow(ratio, IF IsReadme(ah.path) THEN ReadmeRatioPercent
                                ELSE MinRatioPercent)

\* C38: for an edit_apply_full request that carries no instruction the
\* anti-destructive guards stay in force: a text whose similarity to the old
\* contents is below 0.90 for README.md, below 0.20 for any other file, is
\* rejected with guard_blocked and nothing is written.
C38_UninstructedGuarded ==
    UninstructedRewrite => (ah.pc # "call" => RejectedWith("guard_blocked"))

\* The step leaves the loop of client_handler.
LoopEnds == conn.pc # "closed" /\ conn'.pc = "closed"

\* readline has returned b"" at the end of the stream.
EndOfInput == conn.pc = "read" /\ conn.inbox = <<>> /\ conn.peer \in {"eof", "gone"}

\* _safe_drain has returned False.
FailedDrain == conn.pc = "drain" /\ conn.peer = "gone"

\* C39: no error ends the service of a connection: after a line that is no
\* valid JSON, a handler that returns an error or a handler that raises, the
\* reply is sent and the loop goes on to the next line; the loop ends only on
\* the end of the input or on a failed drain.
C39_OnlyEofOrFailedDrainEnds ==
    /\ [][LoopEnds => (EndOfInput \/ FailedDrain)]_vars
    /\ [][conn.pc = "handle" => conn'.pc \in {"handle", "drain"}]_vars
    /\ [][(conn.pc = "drain" /\ ~FailedDrain) => conn'.pc \in {"drain", "read"}]_vars

(***************************************************************************)
(* daemon.py, protocol.py: several connections. asyncio runs one           *)
(* client_handler task per connection on one event loop: a task runs from  *)
(* one await that suspends to the next, and the loop resumes another task  *)
(* only then. The awaits of client_handler are readline and drain;         *)
(* handle_request is a coroutine with no await in its body, and the core   *)
(* below it (coder.py) is synchronous code with no thread.                 *)
(***************************************************************************)
Clients == {1, 2}

MaxServerRequests == 1   \* each peer writes this many edit_apply lines, then closes

\* The patches of the edit_apply requests, for the file "a\n".
ServerPatches ==
    { Some(<<"@", "@", " ", "-", "1", " ", "+", "1", " ", "@", "@", "\n", "-", "a", "\n", "+", "b", "\n">>),
      Some(<<"@", "@", " ", "-", "1", " ", "+", "1", " ", "@", "@", "\n", " ", "a", "\n", "+", "c", "\n">>) }

ServerFile == <<"f", ".", "p", "y">>

\* The task of a connection waits in readline.
TaskIdle == [HandlerIdle EXCEPT !.pc = "readline"]

\* daemon.py 38, 46, 61: the places of client_handler where the event loop
\* may run another task: await reader.readline(), await _safe_drain(writer),
\* and the end of the task.
SuspendsEverywhere(pc) == TRUE

Suspends(pc) == pc \in {"readline", "drain", "closed"}

\* The task of connection c may run: it is the running one, or none runs.
CanRun(c) == srv.running \in {0, c}

\* The places of a call between the read of the file and the return.
CorePcs == {"call", "backup", "mkstemp", "write", "replace", "finally", "git"}

\* The steps of apply_edit from h on the files as they are now: the checks
\* with the read of the file, the backup, mkstemp, the write of the
\* temporary file, os.replace, the finally clause and git add, each done or
\* failed (coder.py 887-960, 562-583).
CoreSteps(h) ==
    IF h.pc = "call" THEN {apply_edit_checks(h, compiles) : compiles \in BOOLEAN}
    ELSE IF h.pc = "backup"
    THEN {backup_written(h) : x \in {w \in {TRUE} : Walk(BackupPath(h.file), h.links).ok}}
         \cup {backup_failed(h, opened) :
                  opened \in {o \in BOOLEAN : o => Walk(BackupPath(h.file), h.links).ok}}
    ELSE IF h.pc = "mkstemp" THEN {mkstemp_done(h), Raises(h, "OSError")}
    ELSE IF h.pc = "write"
    THEN {tmp_written(h, n) : n \in {0, Len(h.new) \div 2, Len(h.new)}}
    ELSE IF h.pc = "replace" THEN {replaced(h), replace_failed(h)}
    ELSE IF h.pc = "finally" THEN {finally_done(h)}
    ELSE {git_added(h, rc) : rc \in {0, 1}}

\* The record of a task with the files and its git add left out: the files
\* are those of the server, which keeps what the index of git holds.
Shelved(h) == [h EXCEPT !.disk = <<>>, !.links = <<>>, !.git = <<>>]

\* The record of the task of c on the files of the server.
OnFiles(c) ==
    [srv.tasks[c] EXCEPT !.disk = srv.disk, !.links = srv.links]

InitServer ==
    /\ old = <<>>
    /\ diff = <<>>
    /\ ap = ApplyIdle
    /\ normalized = NormIdle
    /\ apn = ApplyIdle
    /\ guard = GuardIdle
    /\ ed = EditIdle
    /\ rp = PathIdle
    /\ ah = HandlerIdle
    /\ conn = ConnIdle
    /\ lj = JsonIdle
    /\ fi = FutureIdle
    /\ srv = [pc |-> "serving", running |-> 0,
              tasks |-> [c \in Clients |-> TaskIdle],
              left |-> [c \in Clients |-> MaxServerRequests],
              disk |-> DiskOf(<<"a", "\n">>, "absent"),
              links |-> LinksOf("absent"),
              git |-> <<>>,
              wrote |-> {}]

serverFrame == <<old, diff, ap, normalized, apn, guard, ed, rp, ah, conn, lj, fi>>

\* daemon.py 38-44, protocol.py 107-121: readline returns a request line,
\* json.loads gives the dict and handle_request calls apply_edit
ReadRequest(c) ==
    /\ CanRun(c)
    /\ srv.tasks[c].pc = "readline" /\ srv.left[c] > 0
    /\ \E patch \in ServerPatches, stage \in BOOLEAN :
          srv' = [srv EXCEPT !.running = c,
                             !.left[c] = @ - 1,
                             !.tasks[c] = [HandlerIdle EXCEPT
                                 !.pc = "call", !.op = "apply_edit", !.root = HandlerRoot,
                                 !.path = ServerFile, !.payload = patch,
                                 !.instruction = <<"r", "e", "w", "r", "i", "t", "e">>,
                                 !.stage = stage, !.backup = TRUE]]
    /\ UNCHANGED serverFrame

\* daemon.py 38-40, 64-69: readline returns b"", the loop and the task end
EndOfStream(c) ==
    /\ CanRun(c)
    /\ srv.tasks[c].pc = "readline" /\ srv.left[c] = 0
    /\ srv' = [srv EXCEPT !.running = 0, !.tasks[c].pc = "closed"]
    /\ UNCHANGED serverFrame

\* One step of apply_edit for the request of c, on the files as they are.
CoreStep(c) ==
    /\ CanRun(c)
    /\ srv.tasks[c].pc \in CorePcs
    /\ \E h \in {IF srv.tasks[c].pc = "call"
                 THEN [OnFiles(c) EXCEPT !.before = [disk |-> srv.disk, links |-> srv.links]]
                 ELSE OnFiles(c)} :
       \E h2 \in CoreSteps(h) :
          srv' = [srv EXCEPT !.running = IF Suspends(h2.pc) THEN 0 ELSE c,
                             !.tasks[c] = Shelved(h2),
                             !.disk = h2.disk, !.links = h2.links,
                             !.git = IF h2.git # <<>> /\ h2.git[1].rc = 0
                                     THEN <<h2.git[1].bytes>> ELSE @,
                             !.wrote = IF h.pc = "replace" /\ h2.disk # h.disk
                                       THEN @ \cup {c} ELSE @]
    /\ UNCHANGED serverFrame

\* protocol.py 131, 170-173, daemon.py 51-61: the result, or internal_error
\* for an exception, is sent, and the task waits in drain
SendReply(c) ==
    /\ CanRun(c)
    /\ srv.tasks[c].pc \in {"returned", "raised"}
    /\ srv' = [srv EXCEPT !.running = IF Suspends("drain") THEN 0 ELSE c,
                          !.tasks[c] = [TaskIdle EXCEPT !.pc = "drain"]]
    /\ UNCHANGED serverFrame

\* daemon.py 61, 37-38: drain returns and the loop goes back to readline
Drained(c) ==
    /\ CanRun(c)
    /\ srv.tasks[c].pc = "drain"
    /\ srv' = [srv EXCEPT !.running = IF Suspends("readline") THEN 0 ELSE c,
                          !.tasks[c].pc = "readline"]
    /\ UNCHANGED serverFrame

NextServer ==
    \E c \in Clients :
        ReadRequest(c) \/ EndOfStream(c) \/ CoreStep(c) \/ SendReply(c) \/ Drained(c)

SpecServer == InitServer /\ [][NextServer]_vars

(***************************************************************************)
(* What the claim on several connections speaks of.                        *)
(***************************************************************************)
\* The request of c has read the file and its reply is not sent yet.
CoreStarted(c) == srv.tasks[c].pc \in (CorePcs \ {"call"}) \cup {"returned", "raised"}

\* The request of c stands between its read of the file and its rename.
BeforeRename(c) == srv.tasks[c].pc \in {"backup", "mkstemp", "write", "replace"}

\* The place of the file of the requests.
ServerPlace == Walk(TargetFile, TreeLinks).path

\* C40: with several connections open the steps of two requests never
\* interleave: once the core work of a request has started (file read,
\* backup, temporary write, rename, git add) it runs to its reply before any
\* step of another request's core work, so two edit_apply requests on one
\* path act as if executed one after the other: no request writes over
\* contents it has not read.
C40_RequestsDoNotInterleave ==
    srv.pc = "serving" =>
        /\ Cardinality({c \in Clients : CoreStarted(c)}) <= 1
        /\ \A c \in Clients :
              BeforeRename(c) => srv.disk[ServerPlace] = srv.tasks[c].before.disk[ServerPlace]

\* Both peers had a request applied to the same file: the second read what
\* the first had written, and the file holds both changes.
C40_Witness ==
    /\ srv.pc = "serving"
    /\ \A c \in Clients : srv.tasks[c].pc = "closed"
    /\ srv.disk[ServerPlace] = <<"b", "\n", "c", "\n">>
    /\ srv.wrote = Clients

\* C35: _normalize_unified_diff returns its input unchanged whenever the
\* input contains no "@@".
C35_NoHunkUnchanged ==
    (normalized.done /\ ~Contains(diff, AT_AT)) => normalized.text = diff

\* The lines of the raw diff, and whether the normalizer has anything to do:
\* a carriage return, a noise line or a missing line feed at the end.
RawLines == SplitOn(diff, "\n")

AlreadyNormal ==
    /\ diff # <<>> /\ diff[Len(diff)] = "\n"
    /\ ~Contains(diff, <<"\r">>)
    /\ \A k \in 1..Len(RawLines) : ~IsNoise(RawLines[k])

\* C35 as the code has it: _normalize_unified_diff makes no test for "@@":
\* an input without "@@" is normalized like any other, the result holds no
\* "@@" either, and it equals the input when the input ends with a line
\* feed and holds no carriage return and no noise line.
C35_NoHunkNormalized ==
    (normalized.done /\ ~Contains(diff, AT_AT))
        => /\ normalized.text = _normalize_unified_diff(diff)
           /\ ~Contains(normalized.text, AT_AT)
           /\ EndsWith(normalized.text, <<"\n">>)
           /\ AlreadyNormal => normalized.text = diff

\* A diff without "@@" and without a line feed at its end was normalized:
\* the result is the diff with the line feed appended.
C35_Witness ==
    /\ normalized.done /\ ~Contains(diff, AT_AT) /\ diff # <<>>
    /\ normalized.text = diff \o <<"\n">>

\* A diff without "@@" that was normal already came back as it was.
C35_WitnessSame ==
    /\ normalized.done /\ ~Contains(diff, AT_AT) /\ AlreadyNormal
    /\ normalized.text = diff

=============================================================================
